---------------------------- MODULE Spec2Model ----------------------------
(***************************************************************************)
(* Model of the drive-api-deploy-action test harness:                      *)
(*   - YamlParser (src/src/workflow/yaml-parser.ts): path-keyed cache,     *)
(*     parseActionYaml / parseWorkflowYaml, the two validators, clearCache *)
(*   - WorkflowValidator, WorkflowMocker and simulateWorkflowStep          *)
(*     (src/test/workflow/workflow-helpers.ts)                             *)
(* Text is modelled as a sequence of tokens: each token is a piece of text *)
(* that the regular expressions and substring tests of the code treat as a *)
(* unit (a literal of a pattern, one blank, one ordinary character run).   *)
(***************************************************************************)
EXTENDS Integers, Sequences, FiniteSets, TLC

VARIABLES
    cache,      \* YamlParser.cache: resolved path -> [ref, doc]
    nextRef,    \* identity of the next object yaml.parse creates
    lastCall,   \* what the last YamlParser call did and returned
    firstOk,    \* history: path -> reference returned by the first successful
                \* call for that path since construction / the last clearCache
    actionConfig, \* WorkflowValidator.actionConfig: [inputs, steps]
    vq,         \* the WorkflowValidator call to make: its name and arguments
    vres,       \* what that call returned
    commands,   \* WorkflowMocker.mockedCommands: sequence of [pattern, handler]
    outputs,    \* WorkflowMocker.outputs: key -> value
    registered, \* history: the patterns in the order of their first
                \* mockCommand call since construction / the last reset, and
                \* the handler of the last mockCommand call for each
    lastSim     \* what the last simulateWorkflowStep call did and returned

vars == <<cache, nextRef, lastCall, firstOk, actionConfig, vq, vres, commands, outputs,
          registered, lastSim>>

parserVars == <<cache, nextRef, lastCall, firstOk>>
validatorVars == <<actionConfig, vq, vres>>
mockerVars == <<commands, outputs, registered, lastSim>>

-----------------------------------------------------------------------------
(* Bounds *)

\* number of documents yaml.parse may create in one behaviour
MaxParses == 2

\* number of inputs an action definition declares
MaxInputs == 2

\* number of blanks around the == of a guard
MaxBlanks == 1

\* number of values on one axis of a matrix
MaxAxis == 3

-----------------------------------------------------------------------------
(* YamlParser: documents *)

\* a property that the document does not have (undefined)
Absent == "<absent>"

\* JavaScript truthiness of a string-or-undefined value (the ! operator)
Truthy(v) == v # Absent /\ v # ""

NoRuns == [present |-> FALSE, using |-> Absent, hasSteps |-> FALSE, steps |-> <<>>]

Runs(using, hasSteps, steps) ==
    [present |-> TRUE, using |-> using, hasSteps |-> hasSteps, steps |-> steps]

\* an object-valued property: undefined/null, or an object with these keys
NoObj == [present |-> FALSE, keys |-> {}]

Obj(keys) == [present |-> TRUE, keys |-> keys]

Doc(name, description, runs, on, jobs) ==
    [kind |-> "doc", name |-> name, description |-> description,
     runs |-> runs, on |-> on, jobs |-> jobs]

\* what reading and parsing a file can give besides a mapping document
MissingFile == [kind |-> "missing"]      \* fs.readFileSync throws
MalformedFile == [kind |-> "malformed"]  \* yaml.parse throws
NullDoc == [kind |-> "null"]             \* yaml.parse returns null (empty file)
NoDoc == [kind |-> "none"]               \* nothing read / nothing returned

NameVals == {Absent, "", "Deploy"}
DescVals == {Absent, "", "Deploys docs"}
RunsVals ==
    {NoRuns} \cup
    { Runs(u, hs, st) : u \in {"composite", "node20"},
                        hs \in {TRUE}, st \in {<<>>, <<"build">>} } \cup
    { Runs(u, FALSE, <<>>) : u \in {Absent, "composite"} }
ObjVals == {NoObj, Obj({}), Obj({"push"})}
JobVals == {NoObj, Obj({}), Obj({"test"})}

\* action-shaped documents: every combination of the four checked properties
ActionDocs ==
    { Doc(n, d, r, NoObj, NoObj) : n \in NameVals, d \in DescVals, r \in RunsVals }

\* workflow-shaped documents: every combination of the three checked properties
WorkflowDocs ==
    { Doc(n, Absent, NoRuns, o, j) : n \in NameVals, o \in ObjVals, j \in JobVals }

\* a document that is both a valid action and a valid workflow
BothDoc ==
    Doc("Deploy", "Deploys docs", Runs("composite", TRUE, <<"build">>),
        Obj({"push"}), Obj({"test"}))

\* what a file may hold when it is read
FileContents ==
    ActionDocs \cup WorkflowDocs \cup {BothDoc, MissingFile, MalformedFile, NullDoc}

-----------------------------------------------------------------------------
(* YamlParser: paths *)

NoPath == "<undefined>"
DefaultActionPath == "/cwd/action.yml"
DefaultWorkflowPath == "/cwd/.github/workflows/test.yml"
OtherPath == "/cwd/other.yml"

\* the filePath arguments the calls are made with
FilePaths == {NoPath, "", DefaultActionPath, OtherPath}

\* filePath || <default>
ResolvePath(filePath, default) ==
    IF filePath = NoPath \/ filePath = "" THEN default ELSE filePath

-----------------------------------------------------------------------------
(* YamlParser: validation.  The result is the message of the error thrown,  *)
(* or "ok" when the validator returns.                                      *)

Ok == "ok"
TypeErr == "TypeError: Cannot read properties of null"

\* faulty variant: the description is checked before the name
ValidateActionConfigSwapped(config) ==
    IF config.kind = "null" THEN TypeErr
    ELSE IF ~Truthy(config.description) THEN "Action must have a description"
    ELSE IF ~Truthy(config.name) THEN "Action must have a name"
    ELSE IF ~config.runs.present \/ config.runs.using # "composite"
        THEN "Action must use composite runs"
    ELSE IF ~config.runs.hasSteps \/ Len(config.runs.steps) = 0
        THEN "Action must have at least one step"
    ELSE Ok

ValidateActionConfig(config) ==
    IF config.kind = "null" THEN TypeErr
    ELSE IF ~Truthy(config.name) THEN "Action must have a name"
    ELSE IF ~Truthy(config.description) THEN "Action must have a description"
    ELSE IF ~config.runs.present \/ config.runs.using # "composite"
        THEN "Action must use composite runs"
    ELSE IF ~config.runs.hasSteps \/ Len(config.runs.steps) = 0
        THEN "Action must have at least one step"
    ELSE Ok

ValidateWorkflowConfig(config) ==
    IF config.kind = "null" THEN TypeErr
    ELSE IF ~Truthy(config.name) THEN "Workflow must have a name"
    ELSE IF ~config.on.present THEN "Workflow must have triggers"
    ELSE IF ~config.jobs.present \/ Cardinality(config.jobs.keys) = 0
        THEN "Workflow must have at least one job"
    ELSE Ok


-----------------------------------------------------------------------------
(* YamlParser: the cache (a Map keyed by resolved path) *)

EmptyCache == [p \in {} |-> NoDoc]

\* faulty variant: the cache lookup never finds the entry
CacheHasNever(c, p) == FALSE

CacheHas(c, p) == p \in DOMAIN c

CacheGet(c, p) == c[p]

CacheSet(c, p, v) == [q \in DOMAIN c \cup {p} |-> IF q = p THEN v ELSE c[q]]

\* faulty variant: clearCache leaves the entries in place
CacheClearKeeps(c) == c

CacheClear(c) == EmptyCache

GetCacheSize(c) == Cardinality(DOMAIN c)

\* history: remember the reference of the first successful call for a path
NoteOk(h, p, r) ==
    IF p \in DOMAIN h THEN h
    ELSE [q \in DOMAIN h \cup {p} |-> IF q = p THEN r ELSE h[q]]

Call(op, path, ok, ref, doc, reason, read, parsed, repeat) ==
    [op |-> op, path |-> path, ok |-> ok, ref |-> ref, doc |-> doc,
     reason |-> reason, read |-> read, parsed |-> parsed, repeat |-> repeat]

NoCall == Call("new", NoPath, TRUE, 0, NoDoc, Ok, FALSE, NoDoc, FALSE)

\* faulty variant: the parsed document is cached before it is validated
ParseAtCachesFirst(op, actualPath, content, verdict) ==
    LET repeat == actualPath \in DOMAIN firstOk IN
    IF CacheHas(cache, actualPath)
    THEN LET hit == CacheGet(cache, actualPath) IN
         /\ lastCall' = Call(op, actualPath, TRUE, hit.ref, hit.doc, Ok,
                             FALSE, NoDoc, repeat)
         /\ firstOk' = NoteOk(firstOk, actualPath, hit.ref)
         /\ UNCHANGED <<cache, nextRef>>
    ELSE IF content.kind = "missing"
    THEN /\ lastCall' = Call(op, actualPath, FALSE, 0, NoDoc,
                             "ENOENT: no such file or directory",
                             TRUE, NoDoc, repeat)
         /\ UNCHANGED <<cache, nextRef, firstOk>>
    ELSE IF content.kind = "malformed"
    THEN /\ lastCall' = Call(op, actualPath, FALSE, 0, NoDoc, "YAMLParseError",
                             TRUE, NoDoc, repeat)
         /\ UNCHANGED <<cache, nextRef, firstOk>>
    ELSE /\ nextRef <= MaxParses
         /\ nextRef' = nextRef + 1
         /\ cache' = CacheSet(cache, actualPath, [ref |-> nextRef, doc |-> content])
         /\ IF verdict = Ok
            THEN /\ lastCall' = Call(op, actualPath, TRUE, nextRef, content, Ok,
                                     TRUE, content, repeat)
                 /\ firstOk' = NoteOk(firstOk, actualPath, nextRef)
            ELSE /\ lastCall' = Call(op, actualPath, FALSE, 0, NoDoc, verdict,
                                     TRUE, content, repeat)
                 /\ UNCHANGED firstOk

\* the body shared by parseActionYaml and parseWorkflowYaml once the path is
\* resolved; verdict is the result of the call's validator on the content
ParseAt(op, actualPath, content, verdict) ==
    LET repeat == actualPath \in DOMAIN firstOk IN
    IF CacheHas(cache, actualPath)
    THEN LET hit == CacheGet(cache, actualPath) IN
         /\ lastCall' = Call(op, actualPath, TRUE, hit.ref, hit.doc, Ok,
                             FALSE, NoDoc, repeat)
         /\ firstOk' = NoteOk(firstOk, actualPath, hit.ref)
         /\ UNCHANGED <<cache, nextRef>>
    ELSE IF content.kind = "missing"
    THEN /\ lastCall' = Call(op, actualPath, FALSE, 0, NoDoc,
                             "ENOENT: no such file or directory",
                             TRUE, NoDoc, repeat)
         /\ UNCHANGED <<cache, nextRef, firstOk>>
    ELSE IF content.kind = "malformed"
    THEN /\ lastCall' = Call(op, actualPath, FALSE, 0, NoDoc, "YAMLParseError",
                             TRUE, NoDoc, repeat)
         /\ UNCHANGED <<cache, nextRef, firstOk>>
    ELSE /\ nextRef <= MaxParses
         /\ nextRef' = nextRef + 1
         /\ IF verdict = Ok
            THEN /\ cache' = CacheSet(cache, actualPath,
                                      [ref |-> nextRef, doc |-> content])
                 /\ lastCall' = Call(op, actualPath, TRUE, nextRef, content, Ok,
                                     TRUE, content, repeat)
                 /\ firstOk' = NoteOk(firstOk, actualPath, nextRef)
            ELSE /\ lastCall' = Call(op, actualPath, FALSE, 0, NoDoc, verdict,
                                     TRUE, content, repeat)
                 /\ UNCHANGED <<cache, firstOk>>

\* what a call for this path may get from the file system: the file is read
\* only when the cache has no entry for the path
ReadFile(actualPath) ==
    IF CacheHas(cache, actualPath) THEN {NoDoc} ELSE FileContents

\* parseActionYaml(filePath): content is what the file holds if it is read
ParseActionYaml(filePath, content) ==
    /\ ParseAt("parseAction", ResolvePath(filePath, DefaultActionPath), content,
               IF content.kind \in {"doc", "null"}
               THEN ValidateActionConfig(content) ELSE Ok)
    /\ UNCHANGED <<validatorVars, mockerVars>>

\* parseWorkflowYaml(filePath)
ParseWorkflowYaml(filePath, content) ==
    /\ ParseAt("parseWorkflow", ResolvePath(filePath, DefaultWorkflowPath), content,
               IF content.kind \in {"doc", "null"}
               THEN ValidateWorkflowConfig(content) ELSE Ok)
    /\ UNCHANGED <<validatorVars, mockerVars>>

\* clearCache()
ClearCache ==
    /\ cache' = CacheClear(cache)
    /\ firstOk' = [p \in {} |-> 0]
    /\ lastCall' = Call("clearCache", NoPath, TRUE, 0, NoDoc, Ok, FALSE, NoDoc, FALSE)
    /\ UNCHANGED <<nextRef, validatorVars, mockerVars>>

ParserInit ==
    /\ cache = EmptyCache
    /\ nextRef = 1
    /\ lastCall = NoCall
    /\ firstOk = [p \in {} |-> 0]

IdleValidator ==
    /\ actionConfig = [inputs |-> <<>>, steps |-> <<>>]
    /\ vq = [op |-> "none"]
    /\ vres = [op |-> "none"]

IdleMocker ==
    /\ commands = <<>>
    /\ outputs = <<>>
    /\ registered = [order |-> <<>>, handler |-> <<>>]
    /\ lastSim = [op |-> "none"]

InitParser == ParserInit /\ IdleValidator /\ IdleMocker

NextParser ==
    \/ \E fp \in FilePaths :
         \E c \in ReadFile(ResolvePath(fp, DefaultActionPath)) :
            ParseActionYaml(fp, c)
    \/ \E fp \in FilePaths :
         \E c \in ReadFile(ResolvePath(fp, DefaultWorkflowPath)) :
            ParseWorkflowYaml(fp, c)
    \/ ClearCache

SpecParser == InitParser /\ [][NextParser]_vars

-----------------------------------------------------------------------------
(* WorkflowValidator.validateInputs *)

\* names of declared inputs: valid action input ids, none of them an
\* array-index string or a property of Object.prototype, so that
\* Object.entries lists them in declaration order and inputs[name] is the
\* supplied value or undefined
InputNames == {"github-token", "public-repo", "wrangler-port"}

\* values a caller supplies for an input (Absent: the key is not supplied)
SuppliedVals == {Absent, "", "tok"}

\* actionConfig.inputs in declaration order: distinct names, each required or not
Declared ==
    { d \in UNION { [1..n -> [name : InputNames, required : BOOLEAN]] :
                    n \in 0..MaxInputs } :
        \A i, j \in 1..Len(d) : i # j => d[i].name # d[j].name }

SuppliedMaps == [InputNames -> SuppliedVals]

MissingMsg(name) == "Missing required input: " \o name

RECURSIVE CollectErrors(_, _)
\* the for loop of validateInputs over the required input names
CollectErrors(requiredInputs, inputs) ==
    IF requiredInputs = <<>> THEN <<>>
    ELSE LET requiredInput == Head(requiredInputs)
             rest == CollectErrors(Tail(requiredInputs), inputs)
         IN IF ~Truthy(inputs[requiredInput.name])
            THEN <<MissingMsg(requiredInput.name)>> \o rest
            ELSE rest

IsRequired(config) == config.required

\* faulty variant: the inputs are not filtered by their required flag
ValidateInputsUnfiltered(inputsDecl, inputs) == CollectErrors(inputsDecl, inputs)

ValidateInputs(inputsDecl, inputs) ==
    LET requiredInputs == SelectSeq(inputsDecl, IsRequired)
    IN CollectErrors(requiredInputs, inputs)

-----------------------------------------------------------------------------
(* WorkflowValidator.validateStepConditions: guards are token sequences *)

TSteps == "steps."
TOutputs == ".outputs."
TEq == "=="
TQuote == "'"
TBlank == " "
TNewline == "\n"

\* \s
IsSpace(t) == t \in {TBlank, TNewline}

\* . (any character but a line terminator)
AllDot(g, a, b) == \A t \in a..b : g[t] # TNewline

Min(S) == CHOOSE x \in S : \A y \in S : x <= y

\* \s* from position k: the first position that holds no white space
SkipSpace(g, k) ==
    CHOOSE a \in k..(Len(g) + 1) :
        /\ \A t \in k..(a - 1) : IsSpace(g[t])
        /\ (a = Len(g) + 1 \/ ~IsSpace(g[a]))

\* \s*==\s*'(.+?)' from position k: [q, m] the positions of the two quotes,
\* or [q |-> 0, m |-> 0] when it does not match there
TailFrom(g, k) ==
    LET a == SkipSpace(g, k)
        nomatch == [q |-> 0, m |-> 0]
    IN IF a > Len(g) \/ g[a] # TEq THEN nomatch
       ELSE LET q == SkipSpace(g, a + 1) IN
            IF q > Len(g) \/ g[q] # TQuote THEN nomatch
            ELSE LET ends == { m \in (q + 2)..Len(g) :
                                  g[m] = TQuote /\ AllDot(g, q + 1, m - 1) }
                 IN IF ends = {} THEN nomatch ELSE [q |-> q, m |-> Min(ends)]

\* the places where steps\.(.+?)\.outputs\.(.+?)\s*==\s*'(.+?)' can match:
\* i the position of steps., j of .outputs., k the end of the name
MatchPlaces(g) ==
    { p \in (1..Len(g)) \X (1..Len(g)) \X (1..Len(g)) :
        /\ g[p[1]] = TSteps
        /\ p[2] > p[1] + 1 /\ g[p[2]] = TOutputs
        /\ AllDot(g, p[1] + 1, p[2] - 1)
        /\ p[3] > p[2] + 1
        /\ AllDot(g, p[2] + 1, p[3] - 1)
        /\ TailFrom(g, p[3]).m # 0 }

\* the match the engine finds: leftmost start, then the shortest id, then
\* the shortest name (lazy quantifiers)
FirstPlace(g) ==
    CHOOSE p \in MatchPlaces(g) :
        \A r \in MatchPlaces(g) :
            \/ p[1] < r[1]
            \/ p[1] = r[1] /\ p[2] < r[2]
            \/ p[1] = r[1] /\ p[2] = r[2] /\ p[3] <= r[3]

\* condition.match(conditionRegex): the three captured groups
ConditionMatch(g) ==
    IF MatchPlaces(g) = {} THEN [matched |-> FALSE]
    ELSE LET p == FirstPlace(g)
             t == TailFrom(g, p[3])
         IN [matched |-> TRUE,
             stepId |-> SubSeq(g, p[1] + 1, p[2] - 1),
             outputName |-> SubSeq(g, p[2] + 1, p[3] - 1),
             expectedValue |-> SubSeq(g, t.q + 1, t.m - 1)]

\* `steps.${stepId}.outputs.${outputName}`
OutputKey(stepId, outputName) == <<TSteps>> \o stepId \o <<TOutputs>> \o outputName

\* a step without an if property
NoGuard == <<"<no if>">>

\* getStepByName: the index of the first step with that name, 0 if none
GetStepByName(steps, stepName) ==
    IF \E i \in 1..Len(steps) : steps[i].name = stepName
    THEN Min({ i \in 1..Len(steps) : steps[i].name = stepName })
    ELSE 0

\* faulty variant: a name that no step has does not satisfy the condition
ValidateStepConditionsStrict(steps, stepName, outs) ==
    LET i == GetStepByName(steps, stepName) IN
    IF i = 0 THEN FALSE
    ELSE IF steps[i].if = NoGuard \/ steps[i].if = <<>> THEN TRUE
    ELSE LET match == ConditionMatch(steps[i].if) IN
         IF match.matched
         THEN LET key == OutputKey(match.stepId, match.outputName) IN
              key \in DOMAIN outs /\ outs[key] = match.expectedValue
         ELSE TRUE

\* faulty variant: a guard that the pattern does not match is not satisfied
ValidateStepConditionsClosed(steps, stepName, outs) ==
    LET i == GetStepByName(steps, stepName) IN
    IF i = 0 THEN TRUE
    ELSE IF steps[i].if = NoGuard \/ steps[i].if = <<>> THEN TRUE
    ELSE LET match == ConditionMatch(steps[i].if) IN
         IF match.matched
         THEN LET key == OutputKey(match.stepId, match.outputName) IN
              key \in DOMAIN outs /\ outs[key] = match.expectedValue
         ELSE FALSE

\* faulty variant: the comparison is made whenever the key is present only
ValidateStepConditionsLoose(steps, stepName, outs) ==
    LET i == GetStepByName(steps, stepName) IN
    IF i = 0 THEN TRUE
    ELSE IF steps[i].if = NoGuard \/ steps[i].if = <<>> THEN TRUE
    ELSE LET match == ConditionMatch(steps[i].if) IN
         IF match.matched
         THEN LET key == OutputKey(match.stepId, match.outputName) IN
              key \notin DOMAIN outs \/ outs[key] = match.expectedValue
         ELSE TRUE

\* validateStepConditions(stepName, outputs)
ValidateStepConditions(steps, stepName, outs) ==
    LET i == GetStepByName(steps, stepName) IN
    IF i = 0 THEN TRUE
    ELSE IF steps[i].if = NoGuard \/ steps[i].if = <<>> THEN TRUE
    ELSE LET match == ConditionMatch(steps[i].if) IN
         IF match.matched
         THEN LET key == OutputKey(match.stepId, match.outputName) IN
              key \in DOMAIN outs /\ outs[key] = match.expectedValue
         ELSE TRUE

-----------------------------------------------------------------------------
(* WorkflowValidator: the definitions it is constructed from, its operations *)

RECURSIVE Blanks(_)
Blanks(n) == IF n = 0 THEN <<>> ELSE <<TBlank>> \o Blanks(n - 1)

\* the guard steps.<id>.outputs.<name> == '<value>' with b1 and b2 blanks
\* around the ==
Shape(id, name, b1, b2, value) ==
    <<TSteps>> \o id \o <<TOutputs>> \o name \o Blanks(b1) \o <<TEq>>
        \o Blanks(b2) \o <<TQuote>> \o value \o <<TQuote>>

GuardIds == {<<"prev">>, <<"check", "-bash">>}
GuardNames == {<<"status">>, <<"bash", "_available">>}
GuardValues == {<<"true">>, <<"all", TBlank, "done">>}

ShapeGuards ==
    { Shape(id, name, b1, b2, value) :
        id \in GuardIds, name \in GuardNames,
        b1 \in 0..MaxBlanks, b2 \in 0..MaxBlanks, value \in GuardValues }

SimpleGuard == Shape(<<"prev">>, <<"status">>, 1, 1, <<"true">>)

\* guards of other shapes, which the pattern does not match
UnsupportedGuards ==
    { <<"invalid", TBlank, "condition", TBlank, "format">>,
      <<"always()">>,
      <<TSteps, "prev", TOutputs, "status", TBlank, "!=", TBlank,
        TQuote, "true", TQuote>>,
      <<TSteps, "prev", TOutputs, "status", TBlank, TEq, TBlank,
        "\"", "true", "\"">>,
      <<TSteps, "prev", TOutputs, "status", TBlank, TEq, TBlank, TQuote, TQuote>>,
      <<TSteps, "prev", TOutputs, "status", TBlank, TEq, TBlank, TQuote, "true">>,
      <<TSteps, "prev", TOutputs, "status", TBlank, TEq, TBlank, "true">>,
      <<TSteps, "prev", ".result", TBlank, TEq, TBlank, TQuote, "true", TQuote>>,
      <<TSteps, TOutputs, "status", TBlank, TEq, TBlank, TQuote, "true", TQuote>>,
      <<TSteps, "prev", TOutputs, TEq, TQuote, "true", TQuote>>,
      <<TSteps, "prev", TOutputs, "status", TEq, TQuote, "a", TNewline, "b", TQuote>>,
      <<"env.", "READY", TBlank, TEq, TBlank, TQuote, "true", TQuote>> }

\* guards that hold the supported comparison inside a larger expression
EmbeddedGuards ==
    { <<"!(">> \o SimpleGuard \o <<")">>,
      SimpleGuard \o <<TBlank, "&&", TBlank>>
          \o Shape(<<"check", "-bash">>, <<"status">>, 1, 1, <<"true">>),
      <<"always()", TBlank, "||", TBlank>> \o SimpleGuard,
      <<TSteps, "prev", TOutputs, "status", TNewline, TEq, TNewline,
        TQuote, "true", TQuote>>,
      <<TSteps, "prev", TOutputs, "status", TEq, TQuote, "true", TQuote,
        "s", TQuote>> }

AllGuards == ShapeGuards \cup UnsupportedGuards \cup EmbeddedGuards \cup {NoGuard, <<>>}

PairGuards == {NoGuard, SimpleGuard, <<"always()">>}

StepNames == {"Deploy", "Cleanup"}

QueryNames == StepNames \cup {"Missing"}

Step(name, guard) == [name |-> name, if |-> guard]

StepLists ==
    {<<>>} \cup
    { <<Step("Deploy", g)>> : g \in AllGuards } \cup
    { <<Step("Deploy", g1), Step(n2, g2)>> :
        g1 \in PairGuards, n2 \in StepNames, g2 \in PairGuards }

OutputKeys == { OutputKey(id, name) : id \in GuardIds, name \in GuardNames }

\* the outputs argument: a value for some of the keys
OutputMaps ==
    UNION { [ks -> GuardValues] : ks \in SUBSET OutputKeys }

DefaultInputs ==
    << [name |-> "github-token", required |-> TRUE],
       [name |-> "wrangler-port", required |-> FALSE] >>

DefaultSteps == <<Step("Deploy", SimpleGuard)>>

\* the definitions a validator is constructed from
Configs ==
    { [inputs |-> d, steps |-> DefaultSteps] : d \in Declared } \cup
    { [inputs |-> DefaultInputs, steps |-> st] : st \in StepLists }

\* the calls made on a validator
Queries ==
    { [op |-> "validateInputs", inputs |-> m] : m \in SuppliedMaps } \cup
    { [op |-> "evaluateCondition", stepName |-> n, outs |-> o] :
        n \in QueryNames, o \in OutputMaps }

\* validator.validateInputs(inputs)
ValidateInputsCall ==
    /\ vq.op = "validateInputs"
    /\ vres' = [op |-> "validateInputs", supplied |-> vq.inputs,
                errors |-> ValidateInputs(actionConfig.inputs, vq.inputs)]
    /\ UNCHANGED <<actionConfig, vq, parserVars, mockerVars>>

\* validator.validateStepConditions(stepName, outputs)
ValidateStepConditionsCall ==
    /\ vq.op = "evaluateCondition"
    /\ vres' = [op |-> "evaluateCondition", stepName |-> vq.stepName,
                outs |-> vq.outs,
                result |-> ValidateStepConditions(actionConfig.steps,
                                                  vq.stepName, vq.outs)]
    /\ UNCHANGED <<actionConfig, vq, parserVars, mockerVars>>

InitValidator ==
    /\ actionConfig \in Configs
    /\ vq \in Queries
    /\ vres = [op |-> "none"]
    /\ ParserInit
    /\ IdleMocker

NextValidator ==
    \/ ValidateInputsCall
    \/ ValidateStepConditionsCall

SpecValidator == InitValidator /\ [][NextValidator]_vars

-----------------------------------------------------------------------------
(* assertWorkflowInput: JavaScript values of unknown type *)

Js(type, text, num, fields) ==
    [type |-> type, text |-> text, num |-> num, fields |-> fields]

JsUndefined == Js("undefined", "", 0, <<>>)
JsNull == Js("null", "", 0, <<>>)
JsString(text) == Js("string", text, 0, <<>>)
JsNumber(num) == Js("number", "", num, <<>>)
JsArray == Js("array", "", 0, <<>>)
JsObject(fields) == Js("object", "", 0, fields)

\* typeof value
TypeOf(value) == IF value.type \in {"null", "array"} THEN "object" ELSE value.type

\* !!value
JsTruthy(value) ==
    /\ value.type \notin {"undefined", "null"}
    /\ ~(value.type = "string" /\ value.text = "")
    /\ ~(value.type = "number" /\ value.num = 0)

\* obj[field]: undefined for a property the object does not have
Prop(obj, field) ==
    IF field \in DOMAIN obj.fields THEN obj.fields[field] ELSE JsUndefined

requiredFields == <<"github-token", "public-repo-token", "private-repo", "public-repo">>

RECURSIVE CheckRequiredFields(_, _)
\* the for loop over requiredFields: the message of the first throw, or Ok
CheckRequiredFields(obj, fields) ==
    IF fields = <<>> THEN Ok
    ELSE IF TypeOf(Prop(obj, Head(fields))) # "string"
         THEN "Missing required field: " \o Head(fields)
         ELSE CheckRequiredFields(obj, Tail(fields))

\* assertWorkflowInput(input): the message of the error thrown, or Ok
AssertWorkflowInput(input) ==
    IF ~JsTruthy(input) \/ TypeOf(input) # "object"
    THEN "Invalid workflow input"
    ELSE LET missing == CheckRequiredFields(input, requiredFields) IN
         IF missing # Ok THEN missing
         ELSE IF Prop(input, "wrangler-port") # JsUndefined
                 /\ TypeOf(Prop(input, "wrangler-port")) # "string"
              THEN "wrangler-port must be a string"
              ELSE Ok

\* the values the function is called with
FieldNames == {"github-token", "public-repo-token", "private-repo", "public-repo",
               "wrangler-port"}
FieldVals == {JsUndefined, JsNull, JsString(""), JsString("token1"), JsNumber(123)}

UnknownInputs ==
    {JsUndefined, JsNull, JsString(""), JsString("string"), JsNumber(0),
     JsNumber(123), JsArray, JsObject(<<>>)}
        \cup { JsObject(f) : f \in [FieldNames -> FieldVals] }

-----------------------------------------------------------------------------
(* YamlParser.analyzeWorkflowMatrix *)

\* matrix.os, matrix['node-version']: undefined, or an array of values
NoAxis == [present |-> FALSE, values |-> <<>>]
Axis(values) == [present |-> TRUE, values |-> values]

\* strategy.matrix: undefined, or a mapping with the two axes
NoMatrix == [present |-> FALSE, os |-> NoAxis, node |-> NoAxis]
Matrix(os, node) == [present |-> TRUE, os |-> os, node |-> node]

\* job.strategy: undefined, or a mapping with a matrix
NoStrategy == [present |-> FALSE, matrix |-> NoMatrix]
Strategy(matrix) == [present |-> TRUE, matrix |-> matrix]

\* jobs.test: undefined, or a job
NoJob == [present |-> FALSE, strategy |-> NoStrategy]
Job(strategy) == [present |-> TRUE, strategy |-> strategy]

\* jobs: undefined, or a mapping with these job names and this job test
NoJobs == [present |-> FALSE, keys |-> {}, test |-> NoJob]
Jobs(others, test) ==
    [present |-> TRUE,
     keys |-> IF test.present THEN others \cup {"test"} ELSE others,
     test |-> test]

\* a workflow document with these jobs
Workflow(name, jobs) == Doc(name, Absent, NoRuns, Obj({"push"}), jobs)

MatrixResult(threw, reason, operatingSystems, nodeVersions, totalCombinations) ==
    [threw |-> threw, reason |-> reason, operatingSystems |-> operatingSystems,
     nodeVersions |-> nodeVersions, totalCombinations |-> totalCombinations]

\* faulty variant: equal values of an axis are counted once
AnalyzeWorkflowMatrixDistinct(workflowConfig) ==
    IF ~workflowConfig.jobs.present
    THEN MatrixResult(TRUE, TypeErr, <<>>, <<>>, 0)
    ELSE LET testJob == workflowConfig.jobs.test IN
         IF ~testJob.present \/ ~testJob.strategy.present
                \/ ~testJob.strategy.matrix.present
         THEN MatrixResult(FALSE, Ok, <<>>, <<>>, 0)
         ELSE LET matrix == testJob.strategy.matrix
                  operatingSystems == IF matrix.os.present THEN matrix.os.values
                                      ELSE <<>>
                  nodeVersions == IF matrix.node.present THEN matrix.node.values
                                  ELSE <<>>
              IN MatrixResult(FALSE, Ok, operatingSystems, nodeVersions,
                     Cardinality({ operatingSystems[i] :
                                     i \in 1..Len(operatingSystems) })
                       * Cardinality({ nodeVersions[i] :
                                         i \in 1..Len(nodeVersions) }))

\* analyzeWorkflowMatrix on the configuration it works on
AnalyzeWorkflowMatrix(workflowConfig) ==
    IF ~workflowConfig.jobs.present
    THEN MatrixResult(TRUE, TypeErr, <<>>, <<>>, 0)
    ELSE LET testJob == workflowConfig.jobs.test IN
         IF ~testJob.present \/ ~testJob.strategy.present
                \/ ~testJob.strategy.matrix.present
         THEN MatrixResult(FALSE, Ok, <<>>, <<>>, 0)
         ELSE LET matrix == testJob.strategy.matrix
                  operatingSystems == IF matrix.os.present THEN matrix.os.values
                                      ELSE <<>>
                  nodeVersions == IF matrix.node.present THEN matrix.node.values
                                  ELSE <<>>
              IN MatrixResult(FALSE, Ok, operatingSystems, nodeVersions,
                              Len(operatingSystems) * Len(nodeVersions))

\* the arrays of at most MaxAxis values of a set
ArraysOf(S) == UNION { [1..n -> S] : n \in 0..MaxAxis }

OsAxes == {NoAxis} \cup { Axis(v) : v \in ArraysOf({"ubuntu-latest", "windows-latest"}) }
NodeAxes == {NoAxis} \cup { Axis(v) : v \in ArraysOf({"18", "20"}) }

TestJobs ==
    {NoJob, Job(NoStrategy), Job(Strategy(NoMatrix))}
        \cup { Job(Strategy(Matrix(os, node))) : os \in OsAxes, node \in NodeAxes }

\* the config argument of analyzeWorkflowMatrix
MatrixConfigs ==
    { Workflow("CI", Jobs({"lint"}, job)) : job \in TestJobs }
        \cup { Workflow("CI", Jobs({}, NoJob)), Workflow("CI", NoJobs) }

ThreeByOne ==
    Job(Strategy(Matrix(Axis(<<"ubuntu-latest", "windows-latest", "ubuntu-latest">>),
                        Axis(<<"20">>))))

\* what the default workflow file holds when the call is made without config
MatrixFiles ==
    { MissingFile, MalformedFile, NullDoc,
      Workflow("", Jobs({}, ThreeByOne)),
      Workflow("CI", Jobs({}, NoJob)),
      Workflow("CI", Jobs({"lint"}, NoJob)),
      Workflow("CI", Jobs({}, Job(NoStrategy))),
      Workflow("CI", Jobs({}, ThreeByOne)) }

\* no config argument
NoConfig == [kind |-> "undefined"]

MatrixQueries ==
    { [op |-> "analyzeMatrix", config |-> c, file |-> NoDoc] : c \in MatrixConfigs }
        \cup { [op |-> "analyzeMatrix", config |-> NoConfig, file |-> f] :
                 f \in MatrixFiles }

\* parser.analyzeWorkflowMatrix(config): config || this.parseWorkflowYaml()
AnalyzeWorkflowMatrixCall ==
    /\ vq.op = "analyzeMatrix"
    /\ IF vq.config # NoConfig
       THEN /\ vres' = [op |-> "analyzeMatrix", config |-> vq.config,
                        parsed |-> FALSE,
                        result |-> AnalyzeWorkflowMatrix(vq.config)]
            /\ UNCHANGED parserVars
       ELSE /\ ParseAt("parseWorkflow", ResolvePath(NoPath, DefaultWorkflowPath),
                       vq.file,
                       IF vq.file.kind \in {"doc", "null"}
                       THEN ValidateWorkflowConfig(vq.file) ELSE Ok)
            /\ vres' = [op |-> "analyzeMatrix", config |-> lastCall'.doc,
                        parsed |-> TRUE,
                        result |-> IF lastCall'.ok
                                   THEN AnalyzeWorkflowMatrix(lastCall'.doc)
                                   ELSE MatrixResult(TRUE, lastCall'.reason,
                                                     <<>>, <<>>, 0)]
    /\ UNCHANGED <<actionConfig, vq, mockerVars>>

-----------------------------------------------------------------------------
(* Text helpers over token sequences *)

\* text.includes(pat)
Includes(text, pat) ==
    \E i \in 0..(Len(text) - Len(pat)) : SubSeq(text, i + 1, i + Len(pat)) = pat

\* text.startsWith(prefix)
StartsWith(text, prefix) ==
    Len(prefix) <= Len(text) /\ SubSeq(text, 1, Len(prefix)) = prefix

\* the literal pat stands in text at position i
At(text, i, pat) ==
    i >= 1 /\ i + Len(pat) - 1 <= Len(text)
           /\ SubSeq(text, i, i + Len(pat) - 1) = pat

RECURSIVE SplitLines(_)
\* text.split('\n')
SplitLines(text) ==
    IF \A i \in 1..Len(text) : text[i] # TNewline THEN <<text>>
    ELSE LET n == Min({ i \in 1..Len(text) : text[i] = TNewline })
         IN <<SubSeq(text, 1, n - 1)>> \o SplitLines(SubSeq(text, n + 1, Len(text)))

\* line.trim()
Trim(line) ==
    IF \A i \in 1..Len(line) : IsSpace(line[i]) THEN <<>>
    ELSE LET solid == { i \in 1..Len(line) : ~IsSpace(line[i]) }
             first == Min(solid)
             last == CHOOSE x \in solid : \A y \in solid : y <= x
         IN SubSeq(line, first, last)

-----------------------------------------------------------------------------
(* WorkflowMocker *)

\* values a handler throws; String(value) for the ones that are no Error
ErrorObj(message) == [type |-> "Error", text |-> message, num |-> 0]
StringVal(text) == [type |-> "string", text |-> text, num |-> 0]
NumberVal(n) == [type |-> "number", text |-> <<>>, num |-> n]
NoValue == [type |-> "none", text |-> <<>>, num |-> 0]

\* handlers: what calling the function does
Returns(name) == [name |-> name, throws |-> FALSE, thrown |-> NoValue]
Throws(name, value) == [name |-> name, throws |-> TRUE, thrown |-> value]

\* return handler(): the value the handler returns, none when it raises
HandlerResult(handler) ==
    IF handler.throws THEN NoValue ELSE StringVal(<<handler.name>>)

\* faulty variant: a second entry is appended for a pattern that is already
\* registered
MockCommandAppend(cmds, command, handler) ==
    Append(cmds, [pattern |-> command, handler |-> handler])

\* faulty variant: a pattern that is registered again moves to the end
MockCommandMoves(cmds, command, handler) ==
    LET IsOther(entry) == entry.pattern # command
    IN Append(SelectSeq(cmds, IsOther), [pattern |-> command, handler |-> handler])

\* mockCommand(command, handler): Map.set keeps the position of a key that
\* is already there and appends a new key
MockCommand(cmds, command, handler) ==
    IF \E i \in 1..Len(cmds) : cmds[i].pattern = command
    THEN [i \in 1..Len(cmds) |->
            IF cmds[i].pattern = command
            THEN [pattern |-> command, handler |-> handler] ELSE cmds[i]]
    ELSE Append(cmds, [pattern |-> command, handler |-> handler])

\* faulty variant: a key that already has a value keeps it
SetOutputKeepsFirst(outs, key, value) ==
    [k \in DOMAIN outs \cup {key} |-> IF k \in DOMAIN outs THEN outs[k] ELSE value]

\* setOutput(key, value)
SetOutput(outs, key, value) ==
    [k \in DOMAIN outs \cup {key} |-> IF k = key THEN value ELSE outs[k]]

\* what getOutput returns for a key that the map does not hold (undefined)
NoOutput == <<Absent>>

\* getOutput(key)
GetOutput(outs, key) == IF key \in DOMAIN outs THEN outs[key] ELSE NoOutput

NoMockMsg(command) == <<"No mock found for command: ">> \o command

\* faulty variant: a command without a mock is ignored
ExecuteCommandLenient(cmds, command) ==
    LET hits == { i \in 1..Len(cmds) : Includes(command, cmds[i].pattern) } IN
    IF hits = {}
    THEN [index |-> 0, threw |-> FALSE, thrown |-> NoValue, returned |-> NoValue]
    ELSE LET i == Min(hits) IN
         [index |-> i, threw |-> cmds[i].handler.throws,
          thrown |-> cmds[i].handler.thrown,
          returned |-> HandlerResult(cmds[i].handler)]

\* faulty variant: the last pattern that matches is used, not the first
ExecuteCommandLast(cmds, command) ==
    LET hits == { i \in 1..Len(cmds) : Includes(command, cmds[i].pattern) } IN
    IF hits = {}
    THEN [index |-> 0, threw |-> TRUE, thrown |-> ErrorObj(NoMockMsg(command)),
          returned |-> NoValue]
    ELSE LET i == CHOOSE x \in hits : \A y \in hits : y <= x IN
         [index |-> i, threw |-> cmds[i].handler.throws,
          thrown |-> cmds[i].handler.thrown,
          returned |-> HandlerResult(cmds[i].handler)]

\* executeCommand(command): index is the position of the handler that was
\* called (0: none), threw/thrown what the call raised, returned what it
\* returned
ExecuteCommand(cmds, command) ==
    LET hits == { i \in 1..Len(cmds) : Includes(command, cmds[i].pattern) } IN
    IF hits = {}
    THEN [index |-> 0, threw |-> TRUE, thrown |-> ErrorObj(NoMockMsg(command)),
          returned |-> NoValue]
    ELSE LET i == Min(hits) IN
         [index |-> i, threw |-> cmds[i].handler.throws,
          thrown |-> cmds[i].handler.thrown,
          returned |-> HandlerResult(cmds[i].handler)]

-----------------------------------------------------------------------------
(* simulateWorkflowStep *)

TOpen == "${{"
TInputs == "inputs."
TClose == "}}"
TEcho == "echo"
TDq == "\""
TAssign == "="
TAppend == ">>"
TDollar == "$"
TEnv == "env:"
TSink == "GITHUB_OUTPUT"
TTry == "try {"
TCatch == "} catch {"
THash == "#"

NoRun == <<"<no run>">>
NoId == <<"undefined">>

\* the end of a match of \$\{\{\s*inputs\.<key>\s*\}\} that starts at i, or 0
TokenEnd(text, i, key) ==
    IF i > Len(text) \/ text[i] # TOpen THEN 0
    ELSE LET a == SkipSpace(text, i + 1) IN
         IF ~At(text, a, <<TInputs, key>>) THEN 0
         ELSE LET b == SkipSpace(text, a + 2) IN
              IF b <= Len(text) /\ text[b] = TClose THEN b ELSE 0

RECURSIVE Expand(_, _)
\* the replacement text of String.replace: $$ stands for $, $& for the match
Expand(value, matched) ==
    IF value = <<>> THEN <<>>
    ELSE (CASE Head(value) = "$$" -> <<TDollar>>
            [] Head(value) = "$&" -> matched
            [] OTHER -> <<Head(value)>>) \o Expand(Tail(value), matched)

RECURSIVE ReplaceFrom(_, _, _, _)
\* processedRun.replace(pattern, value) with the g flag, from position i on
ReplaceFrom(text, i, key, value) ==
    IF i > Len(text) THEN <<>>
    ELSE LET e == TokenEnd(text, i, key) IN
         IF e = 0 THEN <<text[i]>> \o ReplaceFrom(text, i + 1, key, value)
         ELSE Expand(value, SubSeq(text, i, e)) \o ReplaceFrom(text, e + 1, key, value)

RECURSIVE Interpolate(_, _)
\* the forEach over Object.entries(inputs): one replace per key, in order
Interpolate(run, inputs) ==
    IF inputs = <<>> THEN run
    ELSE Interpolate(ReplaceFrom(run, 1, Head(inputs).key, Head(inputs).value),
                     Tail(inputs))

EchoHead == <<TEcho, TBlank, TDq>>
BashTail == <<TDq, TBlank, TAppend, TBlank, TDollar, TSink>>
PowerShellTail == <<TDq, TBlank, TAppend, TBlank, TDollar, TEnv, TSink>>

\* echo "(.+?)=(.+?)" >> <sink>: the positions of an = that can end a key
\* which starts after the echo " at i
EchoAssigns(line, i) == { j \in (i + 4)..Len(line) : line[j] = TAssign }

\* the positions of the closing quote that can end a value which starts
\* after the = at j
EchoEnds(line, j, tail) == { k \in (j + 2)..Len(line) : At(line, k, tail) }

\* the positions of echo " from which the whole pattern matches
EchoStarts(line, tail) ==
    { i \in 1..Len(line) :
        /\ At(line, i, EchoHead)
        /\ \E j \in EchoAssigns(line, i) : EchoEnds(line, j, tail) # {} }

\* trimmedLine.match(...): leftmost start, shortest key, shortest value
OutputMatch(line, tail) ==
    IF EchoStarts(line, tail) = {}
    THEN [matched |-> FALSE, key |-> <<>>, value |-> <<>>]
    ELSE LET i == Min(EchoStarts(line, tail))
             j == Min({ q \in EchoAssigns(line, i) : EchoEnds(line, q, tail) # {} })
             k == Min(EchoEnds(line, j, tail))
         IN [matched |-> TRUE,
             key |-> SubSeq(line, i + 3, j - 1),
             value |-> SubSeq(line, j + 1, k - 1)]

\* faulty variant: the key is built without the .outputs. part
StepOutputKeyFlat(step, key) == <<TSteps>> \o step.id \o <<".">> \o key

\* `steps.${step.id}.outputs.${key}`
StepOutputKey(step, key) == <<TSteps>> \o step.id \o <<TOutputs>> \o key

\* the state of one run: the output map, the lines dispatched and the outputs
\* recorded so far (each with the number of its line), what was raised
RunState(outs, dispatched, recorded, threw, thrown) ==
    [outs |-> outs, dispatched |-> dispatched, recorded |-> recorded,
     threw |-> threw, thrown |-> thrown]

Record(st, n, key, value) ==
    RunState(SetOutput(st.outs, key, value), st.dispatched,
             Append(st.recorded, [line |-> n, key |-> key, value |-> value]),
             st.threw, st.thrown)

\* faulty variant: under powershell a line without echo, GITHUB_OUTPUT and
\* markers is passed to executeCommand as under the other shells
RunLinePowerShellDispatches(step, cmds, st, n, line) ==
    LET trimmedLine == Trim(line) IN
    IF trimmedLine = <<>> \/ Head(trimmedLine) = THash THEN st
    ELSE IF Includes(trimmedLine, <<TEcho>>) /\ Includes(trimmedLine, <<TSink>>)
    THEN LET outputMatch ==
                 OutputMatch(trimmedLine,
                             IF step.shell = "powershell" THEN PowerShellTail
                             ELSE BashTail)
         IN IF outputMatch.matched
            THEN Record(st, n, StepOutputKey(step, outputMatch.key),
                        outputMatch.value)
            ELSE st
    ELSE IF step.shell = "powershell" /\ Includes(trimmedLine, <<TTry>>)
    THEN Record(st, n, StepOutputKey(step, <<"bash_available">>), <<"true">>)
    ELSE IF step.shell = "powershell" /\ Includes(trimmedLine, <<TCatch>>)
    THEN Record(st, n, StepOutputKey(step, <<"bash_available">>), <<"false">>)
    ELSE LET x == ExecuteCommand(cmds, trimmedLine) IN
         RunState(st.outs,
                  Append(st.dispatched,
                         [line |-> n, command |-> trimmedLine, index |-> x.index]),
                  st.recorded, x.threw, x.thrown)

\* faulty variant: under powershell the block-close marker is looked for
\* before the block-open marker
RunLineCatchFirst(step, cmds, st, n, line) ==
    LET trimmedLine == Trim(line) IN
    IF trimmedLine = <<>> \/ Head(trimmedLine) = THash THEN st
    ELSE IF step.shell = "powershell"
    THEN IF Includes(trimmedLine, <<TEcho>>) /\ Includes(trimmedLine, <<TSink>>)
         THEN LET outputMatch == OutputMatch(trimmedLine, PowerShellTail) IN
              IF outputMatch.matched
              THEN Record(st, n, StepOutputKey(step, outputMatch.key),
                          outputMatch.value)
              ELSE st
         ELSE IF Includes(trimmedLine, <<TCatch>>)
         THEN Record(st, n, StepOutputKey(step, <<"bash_available">>), <<"false">>)
         ELSE IF Includes(trimmedLine, <<TTry>>)
         THEN Record(st, n, StepOutputKey(step, <<"bash_available">>), <<"true">>)
         ELSE st
    ELSE IF Includes(trimmedLine, <<TEcho>>) /\ Includes(trimmedLine, <<TSink>>)
         THEN LET outputMatch == OutputMatch(trimmedLine, BashTail) IN
              IF outputMatch.matched
              THEN Record(st, n, StepOutputKey(step, outputMatch.key),
                          outputMatch.value)
              ELSE st
         ELSE LET x == ExecuteCommand(cmds, trimmedLine) IN
              RunState(st.outs,
                       Append(st.dispatched,
                              [line |-> n, command |-> trimmedLine,
                               index |-> x.index]),
                       st.recorded, x.threw, x.thrown)

\* the body of the for loop for line number n
RunLine(step, cmds, st, n, line) ==
    LET trimmedLine == Trim(line) IN
    IF trimmedLine = <<>> \/ Head(trimmedLine) = THash THEN st
    ELSE IF step.shell = "powershell"
    THEN IF Includes(trimmedLine, <<TEcho>>) /\ Includes(trimmedLine, <<TSink>>)
         THEN LET outputMatch == OutputMatch(trimmedLine, PowerShellTail) IN
              IF outputMatch.matched
              THEN Record(st, n, StepOutputKey(step, outputMatch.key),
                          outputMatch.value)
              ELSE st
         ELSE IF Includes(trimmedLine, <<TTry>>)
         THEN Record(st, n, StepOutputKey(step, <<"bash_available">>), <<"true">>)
         ELSE IF Includes(trimmedLine, <<TCatch>>)
         THEN Record(st, n, StepOutputKey(step, <<"bash_available">>), <<"false">>)
         ELSE st
    ELSE IF Includes(trimmedLine, <<TEcho>>) /\ Includes(trimmedLine, <<TSink>>)
         THEN LET outputMatch == OutputMatch(trimmedLine, BashTail) IN
              IF outputMatch.matched
              THEN Record(st, n, StepOutputKey(step, outputMatch.key),
                          outputMatch.value)
              ELSE st
         ELSE LET x == ExecuteCommand(cmds, trimmedLine) IN
              RunState(st.outs,
                       Append(st.dispatched,
                              [line |-> n, command |-> trimmedLine,
                               index |-> x.index]),
                       st.recorded, x.threw, x.thrown)

\* the one element of a singleton set
The(S) == CHOOSE x \in S : TRUE

\* a raise is kept when a later line is run after it
KeepRaise(st, next) ==
    IF st.threw
    THEN RunState(next.outs, next.dispatched, next.recorded, TRUE, st.thrown)
    ELSE next

RECURSIVE RunLinesOn(_, _, _, _, _)
\* faulty variant: the loop goes on after a raise and reports the first one
RunLinesOn(step, cmds, lines, n, st) ==
    IF n > Len(lines) THEN st
    ELSE The({ RunLinesOn(step, cmds, lines, n + 1, KeepRaise(st, next)) :
                 next \in {RunLine(step, cmds, st, n, lines[n])} })

RECURSIVE RunLines(_, _, _, _, _)
\* the for loop: a raise leaves it
RunLines(step, cmds, lines, n, st) ==
    IF n > Len(lines) \/ st.threw THEN st
    ELSE The({ RunLines(step, cmds, lines, n + 1, next) :
                 next \in {RunLine(step, cmds, st, n, lines[n])} })

\* error instanceof Error ? error.message : String(error)
ErrorText(thrown) ==
    CASE thrown.type = "Error" -> thrown.text
      [] thrown.type = "string" -> thrown.text
      [] thrown.type = "number" -> <<ToString(thrown.num)>>
      [] OTHER -> <<"undefined">>

\* faulty variant: the output map is returned without the filter
OutputsOfAll(outs, step) == outs

\* the entries of the output map whose key starts with `steps.${step.id}`
OutputsOf(outs, step) ==
    [k \in { q \in DOMAIN outs : StartsWith(q, <<TSteps>> \o step.id) } |-> outs[k]]

NoOutputs == [k \in {} |-> <<>>]

Result(success, hasOutputs, outs, hasError, error) ==
    [success |-> success, hasOutputs |-> hasOutputs, outputs |-> outs,
     hasError |-> hasError, error |-> error]

\* faulty variant: only a missing run property counts, an empty one is run
NoScriptUndefinedOnly(step) == step.run = NoRun

\* !step.run: the run property is missing or the empty string
NoScript(step) == step.run = NoRun \/ step.run = <<>>

\* simulateWorkflowStep(step, inputs, mocker): the result returned, the
\* mocker's output map afterwards and the trace of the run
SimulateWorkflowStep(step, inputs, cmds, outs) ==
    LET start == RunState(outs, <<>>, <<>>, FALSE, NoValue) IN
    IF NoScript(step)
    THEN [result |-> Result(TRUE, FALSE, NoOutputs, FALSE, <<>>),
          run |-> start, lines |-> <<>>]
    ELSE LET processedRun == Interpolate(step.run, inputs)
             lines == SplitLines(processedRun)
             end == RunLines(step, cmds, lines, 1, start)
         IN [result |-> IF end.threw
                        THEN Result(FALSE, FALSE, NoOutputs, TRUE,
                                    ErrorText(end.thrown))
                        ELSE Result(TRUE, TRUE, OutputsOf(end.outs, step),
                                    FALSE, <<>>),
             run |-> end, lines |-> lines]

-----------------------------------------------------------------------------
(* WorkflowMocker and simulateWorkflowStep: the calls made and their inputs *)

Patterns == { <<"git">>, <<"git", TBlank, "clone">> }

HOk == Returns("ok")
HBoom == Throws("boom", ErrorObj(<<"boom">>))
HOops == Throws("oops", StringVal(<<"oops">>))
HCode == Throws("code", NumberVal(42))

Handlers == {HOk, HBoom, HOops, HCode}

LGit == <<"git", TBlank, "clone", TBlank, "repo">>
LStatus == <<TBlank, "git", TBlank, "status">>
LNpm == <<"npm", TBlank, "install">>
LOutResult ==
    <<TEcho, TBlank, TDq, "result", TAssign, "success", TDq, TBlank, TAppend,
      TBlank, TDollar, TSink>>
LOutDone ==
    <<TEcho, TBlank, TDq, "done", TAssign, "yes", TDq, TBlank, TAppend,
      TBlank, TDollar, TSink>>
LPsOutResult ==
    <<TEcho, TBlank, TDq, "result", TAssign, "success", TDq, TBlank, TAppend,
      TBlank, TDollar, TEnv, TSink>>
LOutAgain ==
    <<TEcho, TBlank, TDq, "result", TAssign, "failure", TDq, TBlank, TAppend,
      TBlank, TDollar, TSink>>
LOutCommented == <<THash, TBlank>> \o LOutDone
LComment == <<THash, TBlank, "git", TBlank, "clone">>
LBlank == <<TBlank>>
LTry == <<TTry>>
LCatch == <<TCatch>>
LInterp ==
    <<"git", TBlank, TOpen, TBlank, TInputs, "private-repo", TBlank, TClose>>
LEchoPlain == <<TEcho, TBlank, TDq, "hello", TDq>>
LEchoBad == <<TEcho, TBlank, "result", TBlank, TAppend, TBlank, TDollar, TSink>>
LTryCatch == <<TTry, TBlank, "bash", TBlank, TCatch>>
LCatchCommented == <<THash, TBlank, TCatch>>
LTryEcho ==
    <<TTry, TBlank, TEcho, TBlank, "ok", TBlank, TAppend, TBlank, TDollar, TEnv,
      TSink>>

RECURSIVE Script(_)
\* the lines joined by line breaks
Script(lines) ==
    IF Len(lines) = 1 THEN lines[1]
    ELSE lines[1] \o <<TNewline>> \o Script(Tail(lines))

IdBuild == <<"build">>
IdBuild2 == <<"build", "2">>

SimStep(id, shell, run) == [id |-> id, shell |-> shell, run |-> run]

BashScripts ==
    { Script(<<LOutResult, LGit, LStatus, LOutDone>>),
      Script(<<LGit, LNpm, LGit>>),
      Script(<<LComment, LBlank, LStatus>>),
      Script(<<LInterp>>),
      Script(<<LEchoBad, LEchoPlain>>),
      Script(<<LOutCommented, LOutAgain, LOutResult>>),
      NoRun,
      <<>> }

PowerShellScripts ==
    { Script(<<LTry, LPsOutResult, LCatch>>),
      Script(<<LGit, LOutResult, LCatch, LTry>>),
      Script(<<LTryCatch, LCatchCommented, LTryEcho>>) }

SimSteps ==
    { SimStep(IdBuild, "bash", r) : r \in BashScripts } \cup
    { SimStep(IdBuild, "powershell", r) : r \in PowerShellScripts } \cup
    { SimStep(IdBuild2, Absent, Script(<<LOutResult, LStatus>>)),
      SimStep(NoId, "pwsh", Script(<<LGit>>)) }

\* the inputs argument: its entries in insertion order
SimInputs ==
    { <<>>,
      << [key |-> "github-token", value |-> <<"tok">>],
         [key |-> "private-repo", value |-> <<"clone">>] >>,
      << [key |-> "private-repo", value |-> <<"clone", TBlank, "$$", "HOME">>] >> }

\* the simulate calls made: every step without inputs; the steps without a
\* script body and the step whose script refers to an input with every inputs
SimCalls ==
    { <<step, <<>>>> : step \in SimSteps } \cup
    { <<step, inputs>> :
        step \in { st \in SimSteps :
                     NoScript(st) \/ Includes(st.run, <<TOpen>>) },
        inputs \in SimInputs }

\* keys and values of the setOutput calls made directly on the mocker
DirectKeys == { <<TSteps>> \o IdBuild2 \o <<TOutputs, "result">> }
DirectValues == { <<"old">> }

\* commands given to executeCommand directly
DirectCommands == { LGit, Trim(LStatus), LNpm }

NoSim == [op |-> "none"]

\* mocker.mockCommand(command, handler); the history keeps the arguments and
\* the handlers the registry held for the pattern when it was called
MockCommandCall(command, handler) ==
    /\ commands' = MockCommand(commands, command, handler)
    /\ registered' =
          [order |-> IF \E i \in 1..Len(registered.order) :
                           registered.order[i] = command
                     THEN registered.order
                     ELSE Append(registered.order, command),
           handler |-> [q \in DOMAIN registered.handler \cup {command} |->
                          IF q = command THEN handler ELSE registered.handler[q]]]
    /\ lastSim' = [op |-> "mockCommand", command |-> command, handler |-> handler,
                   previous |-> { commands[i].handler :
                                    i \in { j \in 1..Len(commands) :
                                              commands[j].pattern = command } }]
    /\ UNCHANGED <<outputs, parserVars, validatorVars>>

\* mocker.setOutput(key, value)
SetOutputCall(key, value) ==
    /\ outputs' = SetOutput(outputs, key, value)
    /\ lastSim' = [op |-> "setOutput"]
    /\ UNCHANGED <<commands, registered, parserVars, validatorVars>>

\* mocker.executeCommand(command)
ExecuteCommandCall(command) ==
    /\ lastSim' = [op |-> "executeCommand", command |-> command,
                   outcome |-> ExecuteCommand(commands, command)]
    /\ UNCHANGED <<commands, outputs, registered, parserVars, validatorVars>>

\* faulty variant: reset clears the patterns and leaves the outputs
ResetCallKeepsOutputs ==
    /\ commands' = <<>>
    /\ registered' = [order |-> <<>>, handler |-> <<>>]
    /\ lastSim' = [op |-> "reset", patterns |-> Len(commands),
                   keys |-> DOMAIN outputs]
    /\ UNCHANGED <<outputs, parserVars, validatorVars>>

\* mocker.reset(); the history keeps how many patterns and which keys the
\* registry held when it was called
ResetCall ==
    /\ commands' = <<>>
    /\ outputs' = NoOutputs
    /\ registered' = [order |-> <<>>, handler |-> <<>>]
    /\ lastSim' = [op |-> "reset", patterns |-> Len(commands),
                   keys |-> DOMAIN outputs]
    /\ UNCHANGED <<parserVars, validatorVars>>

\* faulty variant: the outputs recorded by a run that fails are taken back
SimulateCallRollsBack(step, inputs) ==
    \E sim \in {SimulateWorkflowStep(step, inputs, commands, outputs)} :
    /\ outputs' = IF sim.result.success THEN sim.run.outs ELSE outputs
    /\ lastSim' = [op |-> "simulate", step |-> step, inputs |-> inputs,
                   result |-> sim.result, lines |-> sim.lines,
                   dispatched |-> sim.run.dispatched, recorded |-> sim.run.recorded,
                   before |-> outputs]
    /\ UNCHANGED <<commands, registered, parserVars, validatorVars>>

\* simulateWorkflowStep(step, inputs, mocker)
SimulateCall(step, inputs) ==
    \E sim \in {SimulateWorkflowStep(step, inputs, commands, outputs)} :
    /\ outputs' = sim.run.outs
    /\ lastSim' = [op |-> "simulate", step |-> step, inputs |-> inputs,
                   result |-> sim.result, lines |-> sim.lines,
                   dispatched |-> sim.run.dispatched, recorded |-> sim.run.recorded,
                   before |-> outputs]
    /\ UNCHANGED <<commands, registered, parserVars, validatorVars>>

InitMocker ==
    /\ commands = <<>>
    /\ outputs = NoOutputs
    /\ registered = [order |-> <<>>, handler |-> <<>>]
    /\ lastSim = NoSim
    /\ ParserInit
    /\ IdleValidator

NextMocker ==
    \/ \E command \in Patterns, handler \in Handlers :
          MockCommandCall(command, handler)
    \/ \E key \in DirectKeys, value \in DirectValues : SetOutputCall(key, value)
    \/ \E command \in DirectCommands : ExecuteCommandCall(command)
    \/ ResetCall
    \/ \E call \in SimCalls : SimulateCall(call[1], call[2])

SpecMocker == InitMocker /\ [][NextMocker]_vars

-----------------------------------------------------------------------------
(* YamlParser.analyzeActionSecurity: script bodies are token sequences; a  *)
(* letter or digit that may belong to a credential is a token of its own   *)

TGhp == "ghp_"
TPat == "github_pat_"
TAccess == "x-access-token:"
TRm == "rm -rf"
TRemoveItem == "Remove-Item -Recurse -Force"
TUnderscore == "_"

\* [a-zA-Z0-9]: the letters and digits the bodies are written with
Alnum == {"a", "Z", "7"}

\* {36}
SecretLength == 36

\* /ghp_[a-zA-Z0-9]{36}/.test(run)
HasGhpToken(run) ==
    \E i \in 1..Len(run) :
        /\ run[i] = TGhp
        /\ i + SecretLength <= Len(run)
        /\ \A t \in 1..SecretLength : run[i + t] \in Alnum

\* /github_pat_[a-zA-Z0-9_]+/.test(run)
HasPatToken(run) ==
    \E i \in 1..(Len(run) - 1) :
        run[i] = TPat /\ run[i + 1] \in Alnum \cup {TUnderscore}

\* /x-access-token:\$\{\{/.test(run)
HasSecureToken(run) ==
    \E i \in 1..(Len(run) - 1) : run[i] = TAccess /\ run[i + 1] = TOpen

\* /rm -rf|Remove-Item -Recurse -Force/.test(run)
HasCleanup(run) == \E i \in 1..Len(run) : run[i] \in {TRm, TRemoveItem}

Flags(hasHardcodedSecrets, usesSecureTokens, cleansUpResources) ==
    [hasHardcodedSecrets |-> hasHardcodedSecrets,
     usesSecureTokens |-> usesSecureTokens,
     cleansUpResources |-> cleansUpResources]

\* faulty variant: each step overwrites the flags with its own tests
ScanStepOverwrite(flags, step) ==
    IF step.run # NoRun /\ step.run # <<>>
    THEN Flags(HasGhpToken(step.run) \/ HasPatToken(step.run),
               HasSecureToken(step.run),
               HasCleanup(step.run))
    ELSE flags

\* the body of the forEach for one step
ScanStep(flags, step) ==
    IF step.run # NoRun /\ step.run # <<>>
    THEN Flags(flags.hasHardcodedSecrets
                  \/ HasGhpToken(step.run) \/ HasPatToken(step.run),
               flags.usesSecureTokens \/ HasSecureToken(step.run),
               flags.cleansUpResources \/ HasCleanup(step.run))
    ELSE flags

RECURSIVE ScanSteps(_, _)
\* steps.forEach
ScanSteps(steps, flags) ==
    IF steps = <<>> THEN flags
    ELSE ScanSteps(Tail(steps), ScanStep(flags, Head(steps)))

SecurityResult(threw, reason, flags) ==
    [threw |-> threw, reason |-> reason, flags |-> flags]

\* analyzeActionSecurity on the configuration it works on
AnalyzeActionSecurity(config) ==
    IF ~config.runs.present \/ ~config.runs.hasSteps
    THEN SecurityResult(TRUE, TypeErr, Flags(FALSE, FALSE, FALSE))
    ELSE SecurityResult(FALSE, Ok,
                        ScanSteps(config.runs.steps, Flags(FALSE, FALSE, FALSE)))

\* n times the token c
Rep(c, n) == [i \in 1..n |-> c]

\* the pieces the script bodies are written from, by name
PartText(part) ==
    CASE part = "ghp36" -> <<"echo", TBlank, TGhp>> \o Rep("a", SecretLength)
      [] part = "ghp40" -> <<TGhp>> \o Rep("Z", SecretLength + 4)
      [] part = "ghp35" -> <<TGhp>> \o Rep("7", SecretLength - 1)
      [] part = "ghp35_" ->
            <<TGhp>> \o Rep("a", SecretLength - 1) \o <<TUnderscore, "a", "Z">>
      [] part = "pat" -> <<"echo", TBlank, TPat, "7", TUnderscore, "a">>
      [] part = "pat_" -> <<TPat, TUnderscore>>
      [] part = "patbare" -> <<TPat, TBlank, "a">>
      [] part = "token" ->
            <<"git", TBlank, "clone", TBlank, "https://", TAccess, TOpen,
              TBlank, "inputs.", "github-token", TBlank, "}}", "@github.com">>
      [] part = "tokenplain" -> <<TAccess, "$", "TOKEN">>
      [] part = "rm" -> <<TRm, TBlank, "temp">>
      [] part = "ri" -> <<TRemoveItem, TBlank, "temp">>
      [] part = "rmr" -> <<"rm -r", TBlank, "temp">>
      [] OTHER -> <<"git", TBlank, "status">>

Parts == {"ghp36", "ghp40", "ghp35", "ghp35_", "pat", "pat_", "patbare", "token",
          "tokenplain", "rm", "ri", "rmr", "git"}

RECURSIVE JoinParts(_)
\* the pieces as the lines of one body
JoinParts(parts) ==
    IF Len(parts) = 1 THEN PartText(parts[1])
    ELSE PartText(parts[1]) \o <<TNewline>> \o JoinParts(Tail(parts))

\* how a step is written: without run, with an empty run, or from pieces
StepPlans ==
    { [kind |-> k, parts |-> <<>>] : k \in {"none", "empty"} }
        \cup { [kind |-> "body", parts |-> <<p>>] : p \in Parts }
        \cup { [kind |-> "body", parts |-> <<p, q>>] :
                 p \in Parts, q \in {"git", "token", "rm", "ghp36"} }

PlanStep(plan) ==
    [run |-> CASE plan.kind = "none" -> NoRun
               [] plan.kind = "empty" -> <<>>
               [] OTHER -> JoinParts(plan.parts)]

Plans ==
    {<<>>} \cup { <<a>> : a \in StepPlans } \cup { <<a, b>> : a, b \in StepPlans }

PlanSteps(plan) == [i \in 1..Len(plan) |-> PlanStep(plan[i])]

\* an action document with these steps
Action(description, steps) ==
    Doc("Deploy", description, Runs("composite", TRUE, steps), NoObj, NoObj)

SecurityQueries ==
    { [op |-> "analyzeSecrets", plan |-> plan,
       config |-> Action("Deploys docs", PlanSteps(plan)), file |-> NoDoc] :
         plan \in Plans }
      \cup
    { [op |-> "analyzeSecrets", plan |-> <<>>, config |-> c, file |-> NoDoc] :
         c \in { Doc("Deploy", "Deploys docs", NoRuns, NoObj, NoObj),
                 Doc("Deploy", "Deploys docs", Runs("composite", FALSE, <<>>),
                     NoObj, NoObj) } }
      \cup
    { [op |-> "analyzeSecrets", plan |-> plan, config |-> NoConfig,
       file |-> Action(d, PlanSteps(plan))] :
         d \in {"", "Deploys docs"},
         plan \in { pl \in Plans : Len(pl) <= 1 } }
      \cup
    { [op |-> "analyzeSecrets", plan |-> <<>>, config |-> NoConfig, file |-> f] :
         f \in {MissingFile, MalformedFile, NullDoc} }

\* parser.analyzeActionSecurity(config): config || this.parseActionYaml()
AnalyzeActionSecurityCall ==
    /\ vq.op = "analyzeSecrets"
    /\ IF vq.config # NoConfig
       THEN /\ vres' = [op |-> "analyzeSecrets", parsed |-> FALSE,
                        result |-> AnalyzeActionSecurity(vq.config)]
            /\ UNCHANGED parserVars
       ELSE /\ ParseAt("parseAction", ResolvePath(NoPath, DefaultActionPath),
                       vq.file,
                       IF vq.file.kind \in {"doc", "null"}
                       THEN ValidateActionConfig(vq.file) ELSE Ok)
            /\ vres' = [op |-> "analyzeSecrets", parsed |-> TRUE,
                        result |-> IF lastCall'.ok
                                   THEN AnalyzeActionSecurity(lastCall'.doc)
                                   ELSE SecurityResult(TRUE, lastCall'.reason,
                                            Flags(FALSE, FALSE, FALSE))]
    /\ UNCHANGED <<actionConfig, vq, mockerVars>>

-----------------------------------------------------------------------------
(* The analysis functions: one call, with its arguments, per behaviour *)

AssertQueries == { [op |-> "assertWorkflowInput", input |-> v] : v \in UnknownInputs }

\* assertWorkflowInput(input)
AssertWorkflowInputCall ==
    /\ vq.op = "assertWorkflowInput"
    /\ vres' = [op |-> "assertWorkflowInput",
                result |-> AssertWorkflowInput(vq.input)]
    /\ UNCHANGED <<actionConfig, vq, parserVars, mockerVars>>

AnalyzerQueries == AssertQueries \cup MatrixQueries \cup SecurityQueries

InitAnalyzer ==
    /\ actionConfig = [inputs |-> <<>>, steps |-> <<>>]
    /\ vq \in AnalyzerQueries
    /\ vres = [op |-> "none"]
    /\ ParserInit
    /\ IdleMocker

NextAnalyzer ==
    \/ AssertWorkflowInputCall
    \/ AnalyzeWorkflowMatrixCall
    \/ AnalyzeActionSecurityCall

SpecAnalyzer == InitAnalyzer /\ [][NextAnalyzer]_vars

-----------------------------------------------------------------------------
(* YamlParser.checkWranglerConfiguration *)

TIfWrangler == "if [ -f wrangler.toml ]"
TTestPath == "Test-Path wrangler.toml"
TSkipping == "No wrangler.toml found, skipping"
TMkdirDocs == "mkdir -p docs"
TNewItemDocs == "New-Item -ItemType Directory -Path docs"

\* /if \[ -f wrangler\.toml \]|Test-Path wrangler\.toml/.test(run)
HasWranglerCheck(run) == \E i \in 1..Len(run) : run[i] \in {TIfWrangler, TTestPath}

\* /No wrangler\.toml found, skipping/.test(run)
HasSkipMessage(run) == \E i \in 1..Len(run) : run[i] = TSkipping

\* /mkdir -p docs|New-Item -ItemType Directory -Path docs/.test(run)
HasDocsDirectory(run) == \E i \in 1..Len(run) : run[i] \in {TMkdirDocs, TNewItemDocs}

Conventions(checksForWrangler, skipsIfNotFound, createsDocsDirectory) ==
    [checksForWrangler |-> checksForWrangler,
     skipsIfNotFound |-> skipsIfNotFound,
     createsDocsDirectory |-> createsDocsDirectory]

RECURSIVE CheckSteps(_, _)
\* steps.forEach of checkWranglerConfiguration
CheckSteps(steps, flags) ==
    IF steps = <<>> THEN flags
    ELSE LET step == Head(steps) IN
         CheckSteps(Tail(steps),
             IF step.run # NoRun /\ step.run # <<>>
             THEN Conventions(flags.checksForWrangler \/ HasWranglerCheck(step.run),
                              flags.skipsIfNotFound \/ HasSkipMessage(step.run),
                              flags.createsDocsDirectory \/ HasDocsDirectory(step.run))
             ELSE flags)

\* checkWranglerConfiguration on the configuration it works on
CheckWranglerConfiguration(config) ==
    IF ~config.runs.present \/ ~config.runs.hasSteps
    THEN [threw |-> TRUE, reason |-> TypeErr,
          flags |-> Conventions(FALSE, FALSE, FALSE)]
    ELSE [threw |-> FALSE, reason |-> Ok,
          flags |-> CheckSteps(config.runs.steps, Conventions(FALSE, FALSE, FALSE))]

\* faulty variant: the default file is parsed even when a definition is given
CheckWranglerConfigurationCallParses ==
    /\ vq.op = "checkConventions"
    /\ ParseAt("parseAction", ResolvePath(NoPath, DefaultActionPath), vq.file,
               IF vq.file.kind \in {"doc", "null"}
               THEN ValidateActionConfig(vq.file) ELSE Ok)
    /\ vres' = [op |-> "checkConventions", parsed |-> vq.config = NoConfig,
                cached |-> DOMAIN cache,
                result |-> IF vq.config # NoConfig
                           THEN CheckWranglerConfiguration(vq.config)
                           ELSE IF lastCall'.ok
                           THEN CheckWranglerConfiguration(lastCall'.doc)
                           ELSE [threw |-> TRUE, reason |-> lastCall'.reason,
                                 flags |-> Conventions(FALSE, FALSE, FALSE)]]
    /\ UNCHANGED <<actionConfig, vq, mockerVars>>

\* parser.checkWranglerConfiguration(config): config || this.parseActionYaml();
\* the history keeps the paths the cache held when the call was made
CheckWranglerConfigurationCall ==
    /\ vq.op = "checkConventions"
    /\ IF vq.config # NoConfig
       THEN /\ vres' = [op |-> "checkConventions", parsed |-> FALSE,
                        cached |-> DOMAIN cache,
                        result |-> CheckWranglerConfiguration(vq.config)]
            /\ UNCHANGED parserVars
       ELSE /\ ParseAt("parseAction", ResolvePath(NoPath, DefaultActionPath),
                       vq.file,
                       IF vq.file.kind \in {"doc", "null"}
                       THEN ValidateActionConfig(vq.file) ELSE Ok)
            /\ vres' = [op |-> "checkConventions", parsed |-> TRUE,
                        cached |-> DOMAIN cache,
                        result |-> IF lastCall'.ok
                                   THEN CheckWranglerConfiguration(lastCall'.doc)
                                   ELSE [threw |-> TRUE, reason |-> lastCall'.reason,
                                         flags |-> Conventions(FALSE, FALSE, FALSE)]]
    /\ UNCHANGED <<actionConfig, vq, mockerVars>>

-----------------------------------------------------------------------------
(* One YamlParser: parse calls, clearCache and the calls of one analysis   *)
(* function with one argument                                              *)

\* the step list of the documents of a session
SessionSteps ==
    << [run |-> JoinParts(<<"token", "rm">>)
                    \o <<TNewline, TIfWrangler, TBlank, "; then">>],
       [run |-> NoRun],
       [run |-> <<TMkdirDocs>>] >>

\* a document that is a valid action and a valid workflow
SessionDoc ==
    Doc("Deploy", "Deploys docs", Runs("composite", TRUE, SessionSteps),
        Obj({"push"}), Jobs({}, ThreeByOne))

\* a definition given to an analysis function that is in no file
GivenDoc ==
    Doc("Given", "Given by the caller",
        Runs("composite", TRUE, << [run |-> <<TSkipping>>] >>),
        Obj({"push"}), Jobs({"lint"}, NoJob))

\* what a file of a session may hold when it is read
SessionFiles == {SessionDoc, MissingFile, NullDoc}

SessionPaths == {NoPath, OtherPath}

SessionOps == {"analyzeSecrets", "analyzeMatrix", "checkConventions"}

\* the analysis call of a session: with a definition, or without one and
\* with what the default file holds
SessionQueries ==
    { [op |-> o, config |-> c, file |-> NoDoc] :
        o \in SessionOps, c \in {SessionDoc, GivenDoc} } \cup
    { [op |-> o, config |-> NoConfig, file |-> f] :
        o \in SessionOps, f \in {SessionDoc, MissingFile} }

InitSession ==
    /\ actionConfig = [inputs |-> <<>>, steps |-> <<>>]
    /\ vq \in SessionQueries
    /\ vres = [op |-> "none"]
    /\ ParserInit
    /\ IdleMocker

NextSession ==
    \/ \E fp \in SessionPaths :
         \E c \in IF CacheHas(cache, ResolvePath(fp, DefaultActionPath))
                  THEN {NoDoc} ELSE SessionFiles :
            ParseActionYaml(fp, c)
    \/ \E fp \in SessionPaths :
         \E c \in IF CacheHas(cache, ResolvePath(fp, DefaultWorkflowPath))
                  THEN {NoDoc} ELSE SessionFiles :
            ParseWorkflowYaml(fp, c)
    \/ ClearCache
    \/ AnalyzeActionSecurityCall
    \/ AnalyzeWorkflowMatrixCall
    \/ CheckWranglerConfigurationCall

SpecSession == InitSession /\ [][NextSession]_vars

-----------------------------------------------------------------------------
(* Claims about YamlParser, checked under SpecParser *)

ParseOps == {"parseAction", "parseWorkflow"}

\* C1: a parse call for a path that an earlier call (parseAction or
\* parseWorkflow, no clearCache since) parsed successfully returns the very
\* object that the first successful call returned, and reads no file.
C1_RepeatReturnsSameObject ==
    (lastCall.op \in ParseOps /\ lastCall.repeat) =>
        /\ lastCall.ok
        /\ lastCall.ref = firstOk[lastCall.path]
        /\ ~lastCall.read

\* a repeat call of the other kind than the one that filled the cache
C1_Witness ==
    /\ lastCall.op = "parseWorkflow"
    /\ lastCall.repeat
    /\ lastCall.ok
    /\ lastCall.path = DefaultActionPath
    /\ GetCacheSize(cache) = 2

\* C2: the cache size is the number of distinct resolved paths parsed
\* successfully since construction or the last clearCache, and it is zero
\* right after clearCache.
C2_SizeIsDistinctPaths ==
    /\ GetCacheSize(cache) = Cardinality(DOMAIN firstOk)
    /\ (lastCall.op = "clearCache" => GetCacheSize(cache) = 0)

\* clearCache has acted on a parser that had created two documents
C2_Witness ==
    /\ lastCall.op = "clearCache"
    /\ nextRef = 3
    /\ GetCacheSize(cache) = 0

\* what the claim calls a document that passed workflow validation
PassedWorkflowValidation(d) ==
    /\ d.kind = "doc"
    /\ Truthy(d.name)
    /\ d.on.present
    /\ d.jobs.present /\ d.jobs.keys # {}

\* C3: every value parseWorkflow returns is a document that passed workflow
\* validation (non-empty name, triggers present, at least one job).
C3_WorkflowResultValidated ==
    (lastCall.op = "parseWorkflow" /\ lastCall.ok) =>
        PassedWorkflowValidation(lastCall.doc)

\* the reason the claim gives for a document: the first failing check in the
\* order name, description, mode, steps
C4_ExpectedReason(d) ==
    CASE d.name \in {Absent, ""} -> "Action must have a name"
      [] d.name \notin {Absent, ""} /\ d.description \in {Absent, ""}
            -> "Action must have a description"
      [] d.name \notin {Absent, ""} /\ d.description \notin {Absent, ""}
         /\ (~d.runs.present \/ d.runs.using # "composite")
            -> "Action must use composite runs"
      [] OTHER -> "Action must have at least one step"

C4_Invalid(d) ==
    \/ d.name \in {Absent, ""}
    \/ d.description \in {Absent, ""}
    \/ ~d.runs.present
    \/ d.runs.using # "composite"
    \/ ~d.runs.hasSteps
    \/ d.runs.steps = <<>>

\* C4: when the document parseAction parsed has a missing or empty name, a
\* missing or empty description, no runs block or a mode other than
\* composite, or no steps, the call fails, returns no definition, caches
\* nothing, and reports the reason of the first failing check in the order
\* name, description, mode, steps.
C4_ActionRejected ==
    (lastCall.op = "parseAction" /\ lastCall.read) =>
        /\ (lastCall.parsed.kind = "null" =>
                ~lastCall.ok /\ lastCall.doc = NoDoc)
        /\ (lastCall.parsed.kind = "doc" /\ C4_Invalid(lastCall.parsed) =>
                /\ ~lastCall.ok
                /\ lastCall.doc = NoDoc
                /\ lastCall.reason = C4_ExpectedReason(lastCall.parsed)
                /\ ~CacheHas(cache, lastCall.path))

\* a document failing all four checks is rejected for its name
C4_Witness ==
    /\ lastCall.op = "parseAction"
    /\ lastCall.read
    /\ lastCall.parsed = Doc("", Absent, NoRuns, NoObj, NoObj)
    /\ lastCall.reason = "Action must have a name"

\* C5: workflow validation accepts a document only if its name is non-empty,
\* it has at least one trigger and at least one job; a trigger specification
\* that is present but empty is rejected.
C5_WorkflowAcceptedOnlyWithTrigger ==
    (lastCall.op = "parseWorkflow" /\ lastCall.read /\ lastCall.ok) =>
        /\ Truthy(lastCall.parsed.name)
        /\ lastCall.parsed.on.present /\ lastCall.parsed.on.keys # {}
        /\ lastCall.parsed.jobs.present /\ lastCall.parsed.jobs.keys # {}

-----------------------------------------------------------------------------
(* Claims about WorkflowValidator, checked under SpecValidator *)

\* the declared positions whose input is required and not supplied with a
\* truthy value
C6_Missing(decl, supplied) ==
    { i \in 1..Len(decl) :
        decl[i].required /\ supplied[decl[i].name] \in {Absent, ""} }

\* C6: validateInputs returns one "Missing required input: <name>" for each
\* required input without a truthy value, in declaration order, and nothing
\* else; the result is empty iff every required input is truthy; removing one
\* required key from a fully populated map gives exactly that key's error.
C6_ValidateInputsExact ==
    vres.op = "validateInputs" =>
        LET decl == actionConfig.inputs
            errs == vres.errors
            miss == C6_Missing(decl, vres.supplied)
        IN /\ Len(errs) = Cardinality(miss)
           /\ \E f \in [1..Len(errs) -> 1..Len(decl)] :
                /\ \A k \in 1..Len(errs) :
                      f[k] \in miss /\ errs[k] = MissingMsg(decl[f[k]].name)
                /\ \A k, l \in 1..Len(errs) : k < l => f[k] < f[l]
           /\ (errs = <<>> <=>
                 \A i \in 1..Len(decl) :
                    decl[i].required =>
                        vres.supplied[decl[i].name] \notin {Absent, ""})
           /\ (\A n \in InputNames : vres.supplied[n] \notin {Absent, ""}) =>
                 \A i \in 1..Len(decl) :
                    decl[i].required =>
                        ValidateInputs(decl,
                            [vres.supplied EXCEPT ![decl[i].name] = Absent])
                          = <<MissingMsg(decl[i].name)>>

\* two required inputs are missing, declared in the order public-repo,
\* github-token, and a third supplied one is not reported
C6_Witness ==
    /\ vres.op = "validateInputs"
    /\ actionConfig.inputs = << [name |-> "public-repo", required |-> TRUE],
                                [name |-> "github-token", required |-> TRUE] >>
    /\ vres.supplied["public-repo"] = ""
    /\ vres.supplied["github-token"] = Absent
    /\ vres.errors = << MissingMsg("public-repo"), MissingMsg("github-token") >>

\* the guard of the step that a call names: the first step with that name
C7_GuardOf(stepName) ==
    LET steps == actionConfig.steps
        found == { i \in 1..Len(steps) : steps[i].name = stepName }
    IN IF found = {} THEN <<"<no step>">>
       ELSE steps[CHOOSE i \in found : \A j \in found : i <= j].if

\* C7: for a guard steps.<id>.outputs.<name> == '<value>' the result is true
\* iff the output map holds exactly <value> under steps.<id>.outputs.<name>
\* (false for another value or no value); for a step without a guard the
\* result is true.
C7_ShapeGuardCompares ==
    vres.op = "evaluateCondition" =>
        LET guard == C7_GuardOf(vres.stepName) IN
        /\ guard = NoGuard => vres.result = TRUE
        /\ \A id \in GuardIds, name \in GuardNames, value \in GuardValues :
             \A b1, b2 \in 0..MaxBlanks :
                guard = Shape(id, name, b1, b2, value) =>
                    LET key == <<TSteps>> \o id \o <<TOutputs>> \o name IN
                    vres.result = (key \in DOMAIN vres.outs /\ vres.outs[key] = value)

\* the map holds another value under the key of a two-token id and name
C7_Witness ==
    /\ vres.op = "evaluateCondition"
    /\ C7_GuardOf(vres.stepName) =
          Shape(<<"check", "-bash">>, <<"bash", "_available">>, 1, 0, <<"true">>)
    /\ OutputKey(<<"check", "-bash">>, <<"bash", "_available">>) \in DOMAIN vres.outs
    /\ vres.outs[OutputKey(<<"check", "-bash">>, <<"bash", "_available">>)]
          = <<"all", TBlank, "done">>
    /\ vres.result = FALSE

\* C8: for a guard that the pattern does not match, the result is true for
\* every output map.
C8_UnsupportedGuardIsTrue ==
    vres.op = "evaluateCondition" =>
        LET guard == C7_GuardOf(vres.stepName) IN
        (guard \in UnsupportedGuards \/
            (guard \notin {NoGuard, <<"<no step>">>} /\ ~ConditionMatch(guard).matched))
          => vres.result = TRUE

\* a comparison with != is evaluated against a map that holds the key
C8_Witness ==
    /\ vres.op = "evaluateCondition"
    /\ C7_GuardOf(vres.stepName) =
          <<TSteps, "prev", TOutputs, "status", TBlank, "!=", TBlank,
            TQuote, "true", TQuote>>
    /\ OutputKey(<<"prev">>, <<"status">>) \in DOMAIN vres.outs
    /\ vres.result = TRUE

-----------------------------------------------------------------------------
(* Claims about simulateWorkflowStep, checked under SpecMocker *)

\* the dispatches of the last simulate call whose handler raised
C9_Raising ==
    { n \in 1..Len(lastSim.dispatched) :
        /\ lastSim.dispatched[n].index > 0
        /\ commands[lastSim.dispatched[n].index].handler.throws }

\* C9: when a handler called by simulate raises, no later line is processed
\* (no later dispatch, no later output recorded) and the call returns
\* success=false with the error's message, or the raised string unchanged.
C9_HandlerRaiseStops ==
    lastSim.op = "simulate" =>
        \A n \in C9_Raising :
            LET d == lastSim.dispatched[n]
                thrown == commands[d.index].handler.thrown
            IN /\ n = Len(lastSim.dispatched)
               /\ \A r \in 1..Len(lastSim.recorded) :
                     lastSim.recorded[r].line < d.line
               /\ lastSim.result.success = FALSE
               /\ lastSim.result.hasError
               /\ thrown.type \in {"Error", "string"} =>
                     lastSim.result.error = thrown.text

\* the second of two dispatched lines raises a plain string; a line that
\* emits an output follows it
C9_Witness ==
    /\ lastSim.op = "simulate"
    /\ lastSim.step.run = Script(<<LOutResult, LGit, LStatus, LOutDone>>)
    /\ Len(lastSim.dispatched) = 2
    /\ C9_Raising = {2}
    /\ lastSim.result.error = <<"oops">>
    /\ Len(lastSim.recorded) = 1

\* the dispatches of the last simulate call whose line holds no registered
\* pattern
C10_Unmatched ==
    { n \in 1..Len(lastSim.dispatched) :
        \A i \in 1..Len(commands) :
            ~Includes(lastSim.dispatched[n].command, commands[i].pattern) }

\* C10: when simulate dispatches a line that no registered pattern matches,
\* the step is reported as failed with the no-mock error naming the line, and
\* no later line is processed.
C10_NoMockStops ==
    lastSim.op = "simulate" =>
        \A n \in C10_Unmatched :
            LET d == lastSim.dispatched[n] IN
            /\ lastSim.result.success = FALSE
            /\ lastSim.result.hasError
            /\ lastSim.result.error = <<"No mock found for command: ">> \o d.command
            /\ n = Len(lastSim.dispatched)
            /\ \A r \in 1..Len(lastSim.recorded) : lastSim.recorded[r].line < d.line

\* the first line is handled by a mock, the second has none, a third follows
C10_Witness ==
    /\ lastSim.op = "simulate"
    /\ lastSim.step.run = Script(<<LGit, LNpm, LGit>>)
    /\ Len(commands) = 2
    /\ Len(lastSim.dispatched) = 2
    /\ C10_Unmatched = {2}
    /\ lastSim.result.success = FALSE

-----------------------------------------------------------------------------
(* Claims about the outputs of simulateWorkflowStep, checked under SpecMocker *)

C11_Keys == {"result", "done"}
C11_Values == {"success", "failure", "yes"}

\* the tail of the output-emission pattern of the step's shell family
C11_Tail(step) == IF step.shell = "powershell" THEN PowerShellTail ELSE BashTail

\* the line echo "<key>=<value>" >> <sink of the family>
C11_Emit(key, value, tail) == <<TEcho, TBlank, TDq, key, TAssign, value>> \o tail

\* the number of the line at which the last simulate call stopped: the line
\* of the dispatch that failed, or one past the last line
C11_Halt ==
    IF lastSim.result.success THEN Len(lastSim.lines) + 1
    ELSE lastSim.dispatched[Len(lastSim.dispatched)].line

C12_Prefixed(id) ==
    { k \in DOMAIN outputs :
        /\ Len(k) >= 1 + Len(id)
        /\ k[1] = TSteps
        /\ \A i \in 1..Len(id) : k[i + 1] = id[i] }

\* C12: when simulate succeeds on a step with a script body, the returned
\* outputs are exactly the entries of the registry's output map after the
\* run (entries set before the run included) whose keys start with
\* steps.<id>, with the same values.
C12_ReturnedOutputsArePrefixed ==
    (lastSim.op = "simulate" /\ lastSim.result.success
        /\ lastSim.step.run # NoRun /\ lastSim.step.run # <<>>) =>
        /\ lastSim.result.hasOutputs
        /\ DOMAIN lastSim.result.outputs = C12_Prefixed(lastSim.step.id)
        /\ \A k \in C12_Prefixed(lastSim.step.id) :
              lastSim.result.outputs[k] = outputs[k]

\* step build succeeds on a registry that held an entry of step build2 before
\* the run: the entry starts with steps.build and is returned with its value
C12_Witness ==
    /\ lastSim.op = "simulate"
    /\ lastSim.result.success
    /\ lastSim.step.id = IdBuild
    /\ lastSim.step.run # NoRun /\ lastSim.step.run # <<>>
    /\ <<TSteps, "build", "2", TOutputs, "result">> \in DOMAIN lastSim.before
    /\ lastSim.result.outputs =
          [k \in {<<TSteps, "build", TOutputs, "result">>,
                  <<TSteps, "build", "2", TOutputs, "result">>} |->
              IF Len(k) = 4 THEN <<"success">> ELSE <<"old">>]

\* C13: simulate on a step with no script body (no run property, or an empty
\* one) returns success=true with no outputs field and no error, calls no
\* handler, records nothing and leaves the registry's pattern map and output
\* map as they were, whatever the inputs and the registry hold.
C13_NoBodyIsNoOp ==
    [][ (lastSim'.op = "simulate" /\ lastSim'.step.run \in {NoRun, <<>>}) =>
            /\ lastSim'.result.success = TRUE
            /\ lastSim'.result.hasOutputs = FALSE
            /\ lastSim'.result.hasError = FALSE
            /\ lastSim'.dispatched = <<>>
            /\ lastSim'.recorded = <<>>
            /\ commands' = commands
            /\ outputs' = outputs ]_vars

\* a step with an empty run property is simulated with inputs on a registry
\* that holds two patterns and an output of the step
C13_Witness ==
    /\ lastSim.op = "simulate"
    /\ lastSim.step.run = <<>>
    /\ lastSim.inputs # <<>>
    /\ Len(commands) = 2
    /\ <<TSteps, "build", TOutputs, "result">> \in DOMAIN outputs
    /\ lastSim.result.success /\ ~lastSim.result.hasOutputs

-----------------------------------------------------------------------------
(* Claims about WorkflowMocker, checked under SpecMocker *)

\* the positions, in the order of first registration, of the patterns that
\* are a substring of the line
C14_Matching(line) ==
    { i \in 1..Len(registered.order) :
        \E a \in 0..(Len(line) - Len(registered.order[i])) :
            \A t \in 1..Len(registered.order[i]) :
                line[a + t] = registered.order[i][t] }

\* C14: executeCommand(line) calls the handler of the first pattern, in
\* registration order, that is a substring of the line, and returns what it
\* returns (raises what it raises); when no registered pattern is a
\* substring of the line it fails with an error naming the line.
C14_FirstRegisteredPatternWins ==
    lastSim.op = "executeCommand" =>
        LET line == lastSim.command
            out == lastSim.outcome
        IN IF C14_Matching(line) = {}
           THEN /\ out.index = 0
                /\ out.threw
                /\ out.thrown = ErrorObj(<<"No mock found for command: ">> \o line)
           ELSE LET first == CHOOSE i \in C14_Matching(line) :
                                \A j \in C14_Matching(line) : i <= j
                    h == registered.handler[registered.order[first]]
                IN /\ out.index > 0
                   /\ commands[out.index].pattern = registered.order[first]
                   /\ commands[out.index].handler = h
                   /\ out.threw = h.throws
                   /\ (h.throws => out.thrown = h.thrown)
                   /\ (~h.throws => out.returned = StringVal(<<h.name>>))

\* git was registered before git clone; a line that holds both patterns gets
\* the handler registered for git and what it returns
C14_Witness ==
    /\ lastSim.op = "executeCommand"
    /\ lastSim.command = LGit
    /\ registered.order = << <<"git">>, <<"git", TBlank, "clone">> >>
    /\ registered.handler[<<"git">>] = HOk
    /\ registered.handler[<<"git", TBlank, "clone">>] = HBoom
    /\ lastSim.outcome.index = 1
    /\ lastSim.outcome.returned = StringVal(<<"ok">>)

\* the lines dispatched and the keys read after a reset
C15_Lines == DirectCommands \cup {LOutResult, <<>>}
C15_Keys ==
    DirectKeys \cup { <<TSteps>> \o id \o <<TOutputs, name>> :
                        id \in {IdBuild, IdBuild2, NoId},
                        name \in {"result", "done", "bash_available"} }

\* C15: right after reset, whatever was registered, set, dispatched or
\* simulated before, the registry has no patterns and no outputs:
\* executeCommand fails for every line with the no-mock error and getOutput
\* returns undefined for every key.
C15_ResetClearsAll ==
    lastSim.op = "reset" =>
        /\ commands = <<>>
        /\ DOMAIN outputs = {}
        /\ \A line \in C15_Lines :
              /\ ExecuteCommand(commands, line).threw
              /\ ExecuteCommand(commands, line).thrown =
                    ErrorObj(<<"No mock found for command: ">> \o line)
        /\ \A key \in C15_Keys : GetOutput(outputs, key) = <<Absent>>

\* reset was called on a registry that held two patterns, an output set
\* directly and an output recorded by a simulate call
C15_Witness ==
    /\ lastSim.op = "reset"
    /\ lastSim.patterns = 2
    /\ lastSim.keys = { <<TSteps, "build", "2", TOutputs, "result">>,
                        <<TSteps, "build", TOutputs, "result">> }
    /\ commands = <<>>

-----------------------------------------------------------------------------
(* Claims about the analysis functions, checked under SpecAnalyzer *)

\* what the claim accepts: an object whose four required fields are
\* non-empty strings and whose wrangler-port is a string when it is present
C16_Valid(input) ==
    /\ input.type = "object"
    /\ \A f \in {"github-token", "public-repo-token", "private-repo", "public-repo"} :
          /\ f \in DOMAIN input.fields
          /\ input.fields[f].type = "string"
          /\ input.fields[f].text # ""
    /\ ("wrangler-port" \in DOMAIN input.fields
            /\ input.fields["wrangler-port"].type # "undefined")
          => input.fields["wrangler-port"].type = "string"

\* C16: assertWorkflowInput accepts a value only if it is an object whose
\* four required fields are all non-empty strings and whose optional
\* wrangler-port, if present, is a string; every other value is rejected
\* with an error.
C16_AcceptsOnlyValidInput ==
    vres.op = "assertWorkflowInput" =>
        (vres.result = Ok => C16_Valid(vq.input))

\* what the claim calls the length of an axis: zero when it is missing
C17_Length(axis) == IF axis.present THEN Len(axis.values) ELSE 0

\* C17: analyzeWorkflowMatrix returns empty axis lists and
\* totalCombinations = 0 when the job test is absent or has no matrix;
\* otherwise totalCombinations is the number of pairs (position on the
\* operating-system axis, position on the runtime-version axis), equal
\* values counted as often as they occur and a missing axis as empty.
C17_TotalIsProductOfLengths ==
    (vres.op = "analyzeMatrix" /\ vres.config.kind = "doc"
        /\ vres.config.jobs.present) =>
        LET job == vres.config.jobs.test
            r == vres.result
        IN /\ ~r.threw
           /\ IF ~job.present \/ ~job.strategy.present
                    \/ ~job.strategy.matrix.present
              THEN /\ r.operatingSystems = <<>>
                   /\ r.nodeVersions = <<>>
                   /\ r.totalCombinations = 0
              ELSE LET m == job.strategy.matrix IN
                   /\ r.totalCombinations =
                         Cardinality((1..C17_Length(m.os))
                                        \X (1..C17_Length(m.node)))
                   /\ Len(r.operatingSystems) = C17_Length(m.os)
                   /\ Len(r.nodeVersions) = C17_Length(m.node)

\* three operating systems, one of them twice, and one version: three
\* combinations
C17_Witness ==
    /\ vres.op = "analyzeMatrix"
    /\ ~vres.parsed
    /\ vres.config.jobs.test = ThreeByOne
    /\ vres.result.totalCombinations = 3

C18_Secret == {"ghp36", "ghp40", "pat", "pat_"}
C18_Secure == {"token"}
C18_Cleanup == {"rm", "ri"}

\* at least one step with a non-empty script body holds a piece of the family
C18_SomeStepHas(plan, family) ==
    \E i \in 1..Len(plan) :
        /\ plan[i].kind = "body"
        /\ \E j \in 1..Len(plan[i].parts) : plan[i].parts[j] \in family

\* C18: each of the three flags of analyzeActionSecurity is true iff at
\* least one step with a non-empty script body matches the flag's pattern
\* family (a ghp_ token of 36 letters and digits or a github_pat_ token; the
\* x-access-token:${{ idiom; rm -rf or Remove-Item -Recurse -Force); without
\* such a step all three are false, and hasHardcodedSecrets does not depend
\* on the other two families.
C18_FlagsMatchFamilies ==
    (vres.op = "analyzeSecrets" /\ ~vres.result.threw) =>
        LET f == vres.result.flags IN
        /\ f.hasHardcodedSecrets = C18_SomeStepHas(vq.plan, C18_Secret)
        /\ f.usesSecureTokens = C18_SomeStepHas(vq.plan, C18_Secure)
        /\ f.cleansUpResources = C18_SomeStepHas(vq.plan, C18_Cleanup)

\* the first step holds a credential, the second the secure-token idiom and
\* nothing else: the first flag stays set, the third is not set
C18_Witness ==
    /\ vres.op = "analyzeSecrets"
    /\ ~vres.result.threw
    /\ Len(vq.plan) = 2
    /\ vq.plan[1].parts = <<"pat_">>
    /\ vq.plan[2].parts = <<"token">>
    /\ vres.result.flags = Flags(TRUE, TRUE, FALSE)

-----------------------------------------------------------------------------
(* Claims about the lines simulateWorkflowStep processes, under SpecMocker *)

\* the lines of the last simulate call that the claim says are forwarded:
\* reached, not empty, no comment, not an output emission
C19_Forwardable ==
    { n \in 1..Len(lastSim.lines) :
        LET t == Trim(lastSim.lines[n]) IN
        /\ n <= C11_Halt
        /\ t # <<>>
        /\ t[1] # THash
        /\ \A key \in C11_Keys, value \in C11_Values :
              t # C11_Emit(key, value, BashTail) }

\* C19: under the default shell family every non-empty, non-comment line of
\* the interpolated script that does not match the output-emission pattern is
\* passed to executeCommand, in script order; none is skipped.
C19_EveryOtherLineDispatched ==
    (lastSim.op = "simulate" /\ lastSim.step.shell # "powershell"
        /\ ~NoScript(lastSim.step)) =>
        /\ \A n \in C19_Forwardable :
              \E d \in 1..Len(lastSim.dispatched) :
                 /\ lastSim.dispatched[d].line = n
                 /\ lastSim.dispatched[d].command = Trim(lastSim.lines[n])
        /\ \A d, e \in 1..Len(lastSim.dispatched) :
              d < e => lastSim.dispatched[d].line < lastSim.dispatched[e].line

\* the value of the key whose token ${{ inputs.<key> }} stands at position i
\* of the text, or no value when no token of a key of inputs stands there
C20_TokenAt(text, i, inputs) ==
    LET hits == { k \in 1..Len(inputs) :
                    /\ i + 5 <= Len(text)
                    /\ SubSeq(text, i, i + 5) =
                          <<TOpen, TBlank, TInputs, inputs[k].key, TBlank, TClose>> }
    IN IF hits = {} THEN [found |-> FALSE, value |-> <<>>]
       ELSE [found |-> TRUE, value |-> inputs[CHOOSE k \in hits : TRUE].value]

RECURSIVE C20_Literal(_, _, _)
\* the text from position i on with every token of a key of inputs replaced
\* by the key's value, everything else unchanged
C20_Literal(text, i, inputs) ==
    IF i > Len(text) THEN <<>>
    ELSE LET t == C20_TokenAt(text, i, inputs) IN
         IF t.found THEN t.value \o C20_Literal(text, i + 6, inputs)
         ELSE <<text[i]>> \o C20_Literal(text, i + 1, inputs)

\* C20: simulate replaces every token ${{ inputs.<key> }} of a key present
\* in inputs by that key's value before the script is split into lines,
\* leaves the tokens of other keys unchanged, and dispatches the
\* interpolated lines.
C20_LinesAreInterpolated ==
    (lastSim.op = "simulate" /\ ~NoScript(lastSim.step)) =>
        /\ lastSim.lines =
              SplitLines(C20_Literal(lastSim.step.run, 1, lastSim.inputs))
        /\ \A d \in 1..Len(lastSim.dispatched) :
              lastSim.dispatched[d].command =
                  Trim(SplitLines(C20_Literal(lastSim.step.run, 1, lastSim.inputs))
                          [lastSim.dispatched[d].line])

-----------------------------------------------------------------------------
(* Claims about the PowerShell branch of simulateWorkflowStep, under       *)
(* SpecMocker                                                              *)

\* the line holds the marker somewhere
C21_Holds(line, marker) == \E i \in 1..Len(line) : line[i] = marker

\* steps.<id>.outputs.bash_available for the step of the last simulate call
C21_Key == <<TSteps>> \o lastSim.step.id \o <<TOutputs, "bash_available">>

\* line n of the last simulate call has recorded the value under that key
C21_Flagged(n, value) ==
    \E r \in 1..Len(lastSim.recorded) :
        lastSim.recorded[r] = [line |-> n, key |-> C21_Key, value |-> <<value>>]

\* the line is an output emission of PowerShell
C21_Emission(line) ==
    \E key \in C11_Keys, value \in C11_Values :
        Trim(line) = C11_Emit(key, value, PowerShellTail)

C21_Tested ==
    { n \in 1..Len(lastSim.lines) :
        LET t == Trim(lastSim.lines[n]) IN
        /\ t # <<>>
        /\ t[1] # THash
        /\ ~(C21_Holds(t, TEcho) /\ C21_Holds(t, TSink)) }

-----------------------------------------------------------------------------
(* Claims about re-registration in WorkflowMocker, under SpecMocker *)

\* the positions of the registry's entries for the pattern
C22_Entries(pattern) ==
    { i \in 1..Len(commands) : commands[i].pattern = pattern }

\* what a dispatch gives when it calls the handler
C22_OutcomeOf(outcome, handler) ==
    /\ outcome.threw = handler.throws
    /\ (handler.throws => outcome.thrown = handler.thrown)
    /\ (~handler.throws => outcome.returned = StringVal(<<handler.name>>))

\* C22: after mockCommand(p, h1) and a later mockCommand(p, h2) the registry
\* holds one entry for p, its handler is h2, and every dispatch that selects
\* p (by executeCommand or by a line of simulate) calls h2, never h1.
C22_LastRegistrationWins ==
    /\ \A pattern \in Patterns : Cardinality(C22_Entries(pattern)) <= 1
    /\ \A i \in 1..Len(commands) :
          commands[i].handler = registered.handler[commands[i].pattern]
    /\ lastSim.op = "mockCommand" =>
          /\ \A i \in C22_Entries(lastSim.command) :
                commands[i].handler = lastSim.handler
          /\ \A line \in DirectCommands :
                LET outcome == ExecuteCommand(commands, line) IN
                outcome.index \in C22_Entries(lastSim.command) =>
                    C22_OutcomeOf(outcome, lastSim.handler)
    /\ lastSim.op = "executeCommand" =>
          (lastSim.outcome.index > 0 =>
              C22_OutcomeOf(lastSim.outcome,
                  registered.handler[commands[lastSim.outcome.index].pattern]))
    /\ lastSim.op = "simulate" =>
          \A d \in 1..Len(lastSim.dispatched) :
              LET index == lastSim.dispatched[d].index IN
              index > 0 =>
                  LET h == registered.handler[commands[index].pattern] IN
                  /\ h.throws <=> (d = Len(lastSim.dispatched)
                                      /\ ~lastSim.result.success)
                  /\ h.throws => lastSim.result.error = ErrorText(h.thrown)

\* git was registered with a handler that raises and then again with one
\* that returns: one entry, and a line that holds git gets what the second
\* handler returns
C22_Witness ==
    /\ lastSim.op = "mockCommand"
    /\ lastSim.command = <<"git">>
    /\ lastSim.previous = {HBoom}
    /\ lastSim.handler = HOk
    /\ Len(commands) = 1
    /\ ExecuteCommand(commands, LGit).returned = StringVal(<<"ok">>)

\* the patterns of the registry in dispatch order
C29_DispatchOrder == [i \in 1..Len(commands) |-> commands[i].pattern]

\* C29: registering a pattern again replaces its handler and keeps its
\* place in the dispatch order (the order of first registration): when p1
\* was first registered before p2 and is registered again after p2, a line
\* that holds both is dispatched to the new handler of p1.
C29_ReRegistrationKeepsPlace ==
    /\ C29_DispatchOrder = registered.order
    /\ lastSim.op = "mockCommand" =>
          (lastSim.previous # {} =>
              \A i \in 1..Len(registered.order) :
                  registered.order[i] = lastSim.command =>
                      /\ commands[i].pattern = lastSim.command
                      /\ commands[i].handler = lastSim.handler
                      /\ \A line \in DirectCommands :
                            (/\ Includes(line, lastSim.command)
                             /\ \A j \in 1..(i - 1) :
                                   ~Includes(line, registered.order[j]))
                              => /\ ExecuteCommand(commands, line).index = i
                                 /\ C22_OutcomeOf(ExecuteCommand(commands, line),
                                                  lastSim.handler))

\* git was registered, then git clone, then git again with another handler:
\* git is still first, and git clone repo is dispatched to git's new handler
C29_Witness ==
    /\ lastSim.op = "mockCommand"
    /\ lastSim.command = <<"git">>
    /\ lastSim.previous = {HOk}
    /\ lastSim.handler = HOops
    /\ C29_DispatchOrder = << <<"git">>, <<"git", TBlank, "clone">> >>
    /\ commands[2].handler = HOk
    /\ ExecuteCommand(commands, LGit).index = 1
    /\ ExecuteCommand(commands, LGit).thrown = StringVal(<<"oops">>)

-----------------------------------------------------------------------------
(* Claims about what simulateWorkflowStep returns and leaves behind, under *)
(* SpecMocker                                                              *)

\* C25: the outputs a successful simulate of a step with id X returns hold
\* only keys of the form steps.X.outputs.<name>; an output recorded in the
\* registry for another step id Y is never among them.
C25_OnlyOwnOutputs ==
    (lastSim.op = "simulate" /\ lastSim.result.success
        /\ lastSim.result.hasOutputs) =>
        \A k \in DOMAIN lastSim.result.outputs :
            /\ Len(k) > Len(lastSim.step.id) + 2
            /\ SubSeq(k, 1, Len(lastSim.step.id) + 2) =
                  <<TSteps>> \o lastSim.step.id \o <<TOutputs>>

\* C26: simulate on a step whose shell is powershell passes no line to
\* executeCommand, whatever the script body and the registered patterns are
\* (none included): no handler is called and the result is success=true.
C26_PowerShellNeverDispatches ==
    (lastSim.op = "simulate" /\ lastSim.step.shell = "powershell") =>
        /\ lastSim.dispatched = <<>>
        /\ lastSim.result.success = TRUE
        /\ lastSim.result.hasError = FALSE

\* a PowerShell step whose first line holds git succeeds on a registry whose
\* handler for git raises
C26_Witness ==
    /\ lastSim.op = "simulate"
    /\ lastSim.step.shell = "powershell"
    /\ lastSim.lines[1] = LGit
    /\ Len(commands) >= 1
    /\ commands[1] = [pattern |-> <<"git">>, handler |-> HBoom]
    /\ lastSim.dispatched = <<>>
    /\ lastSim.result.success

\* the number of the line at which a simulate call stopped
C27_Halt(sim) ==
    IF sim.result.success THEN Len(sim.lines) + 1
    ELSE sim.dispatched[Len(sim.dispatched)].line

\* the lines of a simulate call before the one that failed that emit a
\* value for the output name
C27_Emitting(sim, key) ==
    { n \in 1..(C27_Halt(sim) - 1) :
        \E value \in C11_Values :
            sim.lines[n] = C11_Emit(key, value, C11_Tail(sim.step)) }

\* C27: when simulate returns success=false, the outputs recorded by the
\* output-emission lines before the failing line stay in the registry's
\* output map (the last value for each name; nothing that was there is
\* removed), the result has no outputs field, and the pattern map is as it
\* was.
C27_FailureKeepsOutputs ==
    [][ (lastSim'.op = "simulate" /\ ~lastSim'.result.success) =>
            /\ commands' = commands
            /\ ~lastSim'.result.hasOutputs
            /\ lastSim'.result.hasError
            /\ DOMAIN outputs \subseteq DOMAIN outputs'
            /\ \A key \in C11_Keys :
                  LET k == <<TSteps>> \o lastSim'.step.id \o <<TOutputs, key>>
                      emitting == C27_Emitting(lastSim', key)
                  IN IF emitting = {}
                     THEN k \in DOMAIN outputs =>  outputs'[k] = outputs[k]
                     ELSE /\ k \in DOMAIN outputs'
                          /\ \E value \in C11_Values :
                                /\ lastSim'.lines[CHOOSE n \in emitting :
                                                    \A m \in emitting : m <= n]
                                      = C11_Emit(key, value, C11_Tail(lastSim'.step))
                                /\ outputs'[k] = <<value>> ]_vars

\* the first line emits result=success, the second is dispatched, the third
\* has no mock: the call fails and the registry holds the new output
C27_Witness ==
    /\ lastSim.op = "simulate"
    /\ lastSim.step.run = Script(<<LOutResult, LGit, LStatus, LOutDone>>)
    /\ ~lastSim.result.success
    /\ ~lastSim.result.hasOutputs
    /\ C27_Halt(lastSim) = 3
    /\ <<TSteps, "build", TOutputs, "result">> \notin DOMAIN lastSim.before
    /\ outputs[<<TSteps, "build", TOutputs, "result">>] = <<"success">>

\* the lines of the last simulate call after line n that record
\* bash_available under powershell
C28_LaterFlag(n) ==
    { m \in (n + 1)..Len(lastSim.lines) :
        \/ m \in C21_Tested /\ C21_Holds(lastSim.lines[m], TTry)
        \/ m \in C21_Tested /\ C21_Holds(lastSim.lines[m], TCatch)
        \/ \E value \in C11_Values :
              Trim(lastSim.lines[m]) =
                  C11_Emit("bash_available", value, PowerShellTail) }

\* C28: when several lines of a step record the same output name, after a
\* successful simulate the registry holds the value of the last of them in
\* script order; a PowerShell script with a try { line and a later
\* } catch { line ends with bash_available = "false" unless a later line
\* records it again.
C28_LastLineWins ==
    (lastSim.op = "simulate" /\ lastSim.result.success) =>
        /\ \A r \in 1..Len(lastSim.recorded) :
              (\A q \in (r + 1)..Len(lastSim.recorded) :
                    lastSim.recorded[q].key # lastSim.recorded[r].key)
                => /\ lastSim.recorded[r].key \in DOMAIN outputs
                   /\ outputs[lastSim.recorded[r].key] = lastSim.recorded[r].value
                   /\ lastSim.result.outputs[lastSim.recorded[r].key]
                         = lastSim.recorded[r].value
        /\ \A r, q \in 1..Len(lastSim.recorded) :
              r < q => lastSim.recorded[r].line < lastSim.recorded[q].line
        /\ lastSim.step.shell = "powershell" =>
              \A i, j \in C21_Tested :
                  (/\ i < j
                   /\ C21_Holds(lastSim.lines[i], TTry)
                   /\ C21_Holds(lastSim.lines[j], TCatch)
                   /\ ~C21_Holds(lastSim.lines[j], TTry)
                   /\ C28_LaterFlag(j) = {})
                    => outputs[C21_Key] = <<"false">>

\* a PowerShell script with try {, an output emission and } catch { has
\* recorded true and then false: the registry and the result hold false
C28_Witness ==
    /\ lastSim.op = "simulate"
    /\ lastSim.result.success
    /\ lastSim.lines = <<LTry, LPsOutResult, LCatch>>
    /\ C21_Flagged(1, "true")
    /\ C21_Flagged(3, "false")
    /\ outputs[C21_Key] = <<"false">>
    /\ lastSim.result.outputs[C21_Key] = <<"false">>

-----------------------------------------------------------------------------
(* Claim about a step name that no step has, under SpecValidator *)

\* C30: validateStepConditions called with a step name that no step of the
\* definition has returns true for every output map, and raises nothing.
C30_UnknownStepIsTrue ==
    (vres.op = "evaluateCondition"
        /\ \A i \in 1..Len(actionConfig.steps) :
              actionConfig.steps[i].name # vres.stepName) =>
        vres.result = TRUE

\* the definition has two steps guarded by steps.prev.outputs.status ==
\* 'true', the output map holds another value under that key, and the call
\* names a third step
C30_Witness ==
    /\ vres.op = "evaluateCondition"
    /\ vres.stepName = "Missing"
    /\ actionConfig.steps = <<Step("Deploy", SimpleGuard), Step("Cleanup", SimpleGuard)>>
    /\ OutputKey(<<"prev">>, <<"status">>) \in DOMAIN vres.outs
    /\ vres.outs[OutputKey(<<"prev">>, <<"status">>)] = <<"all", TBlank, "done">>
    /\ vres.result = TRUE

-----------------------------------------------------------------------------
(* Claim about parse calls that fail, under SpecParser *)

\* the result of the validator of the call on what it parsed
C24_Verdict(call) ==
    IF call.op = "parseAction" THEN ValidateActionConfig(call.parsed)
    ELSE ValidateWorkflowConfig(call.parsed)

\* C24: a parseAction or parseWorkflow call that fails (file unreadable,
\* document malformed, validation failed) leaves the cache as it was: no
\* entry for the path, the same size; and a call for a path that has no
\* entry, as the next call for the path of a failed call, reads the file
\* and validates what it read.
C24_FailedParseKeepsCache ==
    [][ /\ (lastCall'.op \in ParseOps /\ ~lastCall'.ok) =>
              /\ cache' = cache
              /\ GetCacheSize(cache') = GetCacheSize(cache)
              /\ lastCall'.path \notin DOMAIN cache'
              /\ lastCall'.read
        /\ (lastCall'.op \in ParseOps /\ lastCall'.path \notin DOMAIN cache) =>
              /\ lastCall'.read
              /\ lastCall'.ok <=> (/\ lastCall'.parsed.kind = "doc"
                                   /\ C24_Verdict(lastCall') = Ok)
        /\ (/\ lastCall.op \in ParseOps /\ ~lastCall.ok
            /\ lastCall'.op \in ParseOps /\ lastCall'.path = lastCall.path) =>
              lastCall'.read ]_vars

\* parseWorkflow has read a document without triggers and failed, after an
\* earlier call cached a document for another path: the cache holds that
\* entry only
C24_Witness ==
    /\ lastCall.op = "parseWorkflow"
    /\ ~lastCall.ok
    /\ lastCall.read
    /\ lastCall.parsed.kind = "doc"
    /\ lastCall.reason = "Workflow must have triggers"
    /\ nextRef = 3
    /\ GetCacheSize(cache) = 1
    /\ lastCall.path \notin DOMAIN cache

-----------------------------------------------------------------------------
(* Claim about the analysis functions and the cache, under SpecSession *)

\* C23: analyzeActionSecurity, analyzeWorkflowMatrix and
\* checkWranglerConfiguration called with a definition read no file and
\* leave the cache of the parser, its entries and its size, as it was.
C23_GivenDefinitionReadsNothing ==
    [][ (vq.config # NoConfig /\ vres' # vres) =>
            /\ vres'.op = vq.op
            /\ vres'.parsed = FALSE
            /\ cache' = cache
            /\ GetCacheSize(cache') = GetCacheSize(cache)
            /\ nextRef' = nextRef
            /\ lastCall' = lastCall ]_vars

\* checkWranglerConfiguration was called with a definition on a parser that
\* had cached the default action file and another file: the cache holds the
\* two entries, and the result is that of the definition given, not that of
\* the cached file
C23_Witness ==
    /\ vq.op = "checkConventions"
    /\ vq.config = GivenDoc
    /\ vres.op = "checkConventions"
    /\ vres.cached = {DefaultActionPath, OtherPath}
    /\ DOMAIN cache = {DefaultActionPath, OtherPath}
    /\ cache[DefaultActionPath].doc = SessionDoc
    /\ vres.result.flags = Conventions(FALSE, TRUE, FALSE)

=============================================================================
